---- MODULE Spec2Model ----
(***************************************************************************)
(* Model of the Deriv price alert system: the tick-stream client          *)
(* (DerivClient), the alert engine (AlertManager) and the tick handler     *)
(* that joins them (handlePriceTick).                                      *)
(***************************************************************************)
EXTENDS Integers, Sequences, FiniteSets, TLC

(***************************************************************************)
(* Bounds of the model                                                     *)
(***************************************************************************)
\* largest tick quote the feed sends
MaxPrice == 3
\* target price given to addAlert
TargetPrice == 2
\* the rule set holds at most this many rules
MaxAlerts == 2
\* rules alive at once while the tick handler drives the engine
MaxLiveAlerts == 1
\* the history counts a rule's fires up to here (saturating)
MaxFires == 2
\* the history counts a symbol's ticks up to here (saturating)
MaxTicks == 3
\* the history keeps this many of a symbol's latest quotes
MaxLog == 2
\* sockets the client opens in a run (the first connect and the reconnects)
MaxConn == 2
\* request identifiers issued in a run
MaxReqId == 4
\* the connections that may be lost, or disconnected, once they are open
MaxLossConn == 2
\* the rules the rule set may hold when it is built by add and remove
MaxRules == 3
\* the saves to the key-value backend that may be awaiting completion
MaxInflight == 2

\* this.maxReconnectAttempts
MaxReconnectAttempts == 10

Symbols == {"R_10", "R_25"}
Conditions == {"above", "below", "crosses"}
\* a tick's quote: any number the handler accepts (only undefined is dropped)
Quotes == 0..MaxPrice
\* the quotes that differ for a rule: below, at and above its target
EvalQuotes == 1..MaxPrice
\* prices accepted for a rule: the callers reject price <= 0
Targets == {TargetPrice}
\* the tick callbacks the program registers
TickCallbacks == {"handlePriceTick", "botTickHandler"}

VARIABLES
    alerts,         \* AlertManager.alerts: sequence of rules
    stored,         \* the rule set last written to the alerts file
    useRedis,       \* AlertManager.useRedis
    kv,             \* the rule set stored under the key of the key-value backend
    inflight,       \* redis.set calls started and not completed, in call order
    writes,         \* history: a save has failed; the last snapshot sent to the backend
    prices,         \* DerivClient.prices: symbol -> [current, previous]
    callbacks,      \* DerivClient.callbacks: insertion-ordered symbol -> callback
    ret,            \* the last operation: its name, arguments and result
    pre,            \* history: the rule set before the last operation
    hist,           \* history, one entry per rule: fires since armed, saw every tick
    tickCount,      \* history: ticks handled per symbol (saturating)
    tickLog,        \* history: the latest quotes handled per symbol
    conn,           \* which socket this.ws is: 0 none, n the n-th socket created
    wsState,        \* this.ws: "none", "connecting", "open" or "closed"
    connectBy,      \* who awaits the connect() in progress: "main" or "timer"
    connected,      \* DerivClient.connected
    reconnectAttempts, \* DerivClient.reconnectAttempts
    timer,          \* the reconnect timer: 0 none, else its delay in ms
    pingInterval,   \* whether the ping interval is running
    exited,         \* process.exit was called
    reqId,          \* DerivClient.reqId
    subscriptions,  \* DerivClient.subscriptions: symbol -> subscription id
    pending,        \* subscribe calls awaiting their response
    upstream,       \* the feed's subscriptions on the current connection
    replay,         \* the re-subscribe loop of _attemptReconnect
    atClose,        \* history: the callbacks registered at the last loss
    quiet,          \* history: no subscribe/unsubscribe call since that loss
    activeSymbols   \* DerivClient.activeSymbols: its keys, in insertion order

storeVars == <<useRedis, kv, inflight, writes>>

alertVars == <<alerts, stored, pre, hist, storeVars>>

priceVars == <<prices, tickCount, tickLog>>

connVars ==
    <<conn, wsState, connectBy, connected, reconnectAttempts, timer, pingInterval, exited>>

subVars == <<reqId, subscriptions, pending, upstream, replay, atClose, quiet>>

symbolVars == <<activeSymbols>>

clientVars == <<prices, callbacks, tickCount, tickLog, connVars, subVars, symbolVars>>

vars == <<alerts, stored, prices, callbacks, ret, pre, hist, tickCount, tickLog,
          connVars, subVars, storeVars, symbolVars>>

Min(a, b) == IF a < b THEN a ELSE b

(***************************************************************************)
(* An insertion-ordered Map: a sequence of <<key, value>> entries          *)
(***************************************************************************)
MapKeys(m) == {m[i][1] : i \in DOMAIN m}
MapHas(m, k) == k \in MapKeys(m)
MapIndex(m, k) == CHOOSE i \in DOMAIN m : m[i][1] = k
MapGet(m, k) == m[MapIndex(m, k)][2]
MapSet(m, k, v) ==
    IF MapHas(m, k)
    THEN [m EXCEPT ![MapIndex(m, k)] = <<k, v>>]
    ELSE Append(m, <<k, v>>)
MapDelete(m, k) == SelectSeq(m, LAMBDA e : e[1] # k)

(***************************************************************************)
(* AlertManager.checkAlerts                                                *)
(***************************************************************************)
\* Candidate without the skip of a triggered non-repeating rule
CandidateNoSkip(alert, symbol) ==
    /\ alert.enabled
    /\ alert.symbol = symbol

\* Candidate skipping every triggered rule, repeating or not
CandidateSkipTriggered(alert, symbol) ==
    /\ alert.enabled
    /\ alert.symbol = symbol
    /\ ~alert.triggered

\* Candidate taking the rules of every symbol
CandidateAnySymbol(alert, symbol) ==
    /\ alert.enabled
    /\ ~(alert.triggered /\ ~alert.repeat)

\* the two continue statements: the rule is evaluated for this tick
Candidate(alert, symbol) ==
    /\ alert.enabled
    /\ alert.symbol = symbol
    /\ ~(alert.triggered /\ ~alert.repeat)

\* AboveMet comparing with > where the code has >=
AboveMetStrict(price, triggered, currentPrice, previousPrice) ==
    \/ (currentPrice > price /\ previousPrice < price)
    \/ (currentPrice > price /\ ~triggered)

\* AboveMet without the branch for a price already above the target
AboveMetCrossingOnly(price, triggered, currentPrice, previousPrice) ==
    currentPrice >= price /\ previousPrice < price

\* AboveMet taking the second branch whatever the triggered flag
AboveMetIgnoresTriggered(price, triggered, currentPrice, previousPrice) ==
    \/ (currentPrice >= price /\ previousPrice < price)
    \/ currentPrice >= price

AboveMet(price, triggered, currentPrice, previousPrice) ==
    \/ (currentPrice >= price /\ previousPrice < price)
    \/ (currentPrice >= price /\ ~triggered)

BelowMet(price, triggered, currentPrice, previousPrice) ==
    \/ (currentPrice <= price /\ previousPrice > price)
    \/ (currentPrice <= price /\ ~triggered)

\* CrossesMet whose upward branch forgets the previous price
CrossesMetNoPrevious(price, currentPrice, previousPrice) ==
    \/ currentPrice >= price
    \/ (currentPrice <= price /\ previousPrice > price)

CrossesMet(price, currentPrice, previousPrice) ==
    \/ (currentPrice >= price /\ previousPrice < price)
    \/ (currentPrice <= price /\ previousPrice > price)

\* the switch on alert.condition
ConditionMet(alert, currentPrice, previousPrice) ==
    CASE alert.condition = "above" ->
            AboveMet(alert.price, alert.triggered, currentPrice, previousPrice)
      [] alert.condition = "below" ->
            BelowMet(alert.price, alert.triggered, currentPrice, previousPrice)
      [] alert.condition = "crosses" ->
            CrossesMet(alert.price, currentPrice, previousPrice)
      [] OTHER -> FALSE

Fires(alert, symbol, currentPrice, previousPrice) ==
    /\ Candidate(alert, symbol)
    /\ ConditionMet(alert, currentPrice, previousPrice)

\* the rule set once the loop has run through index k
AlertsAfter(als, k, symbol, currentPrice, previousPrice) ==
    [i \in DOMAIN als |->
        IF i <= k /\ Fires(als[i], symbol, currentPrice, previousPrice)
        THEN [als[i] EXCEPT !.triggered = TRUE]
        ELSE als[i]]

\* FiredIndexes putting each rule in front of the ones pushed before it
FiredIndexesUnshift(als, symbol, currentPrice, previousPrice) ==
    LET idx == [i \in DOMAIN als |-> Len(als) + 1 - i]
    IN  SelectSeq(idx, LAMBDA i : Fires(als[i], symbol, currentPrice, previousPrice))

\* triggeredAlerts: the positions of the rules pushed, in loop order
FiredIndexes(als, symbol, currentPrice, previousPrice) ==
    LET idx == [i \in DOMAIN als |-> i]
    IN  SelectSeq(idx, LAMBDA i : Fires(als[i], symbol, currentPrice, previousPrice))

\* the index of the last iteration that calls saveAlerts, 0 when none does
LastSaveIndex(als, symbol, currentPrice, previousPrice) ==
    LET S == {i \in DOMAIN als :
                Fires(als[i], symbol, currentPrice, previousPrice) /\ ~als[i].repeat}
    IN  IF S = {} THEN 0 ELSE CHOOSE i \in S : \A j \in S : j <= i

\* SaveAlerts leaving the file as it was
SaveAlertsNever(old, snapshot, ok) == old

\* saveAlertsToFile: the write replaces the file, a failed write is only logged
SaveAlerts(old, snapshot, ok) == IF ok THEN snapshot ELSE old

\* history of a save: whether a write has failed, and the last snapshot
\* handed to the key-value backend
WritesAfter(snapshot, ok) ==
    [failed |-> writes.failed \/ ~ok,
     started |-> writes.started \/ useRedis,
     last |-> IF useRedis THEN snapshot ELSE writes.last]

\* saveAlerts: saveAlertsToRedis starts redis.set with the rule set
\* serialized at the call and returns without awaiting it; saveAlertsToFile
\* writes the file before it returns
Save(snapshot, ok) ==
    /\ writes' = WritesAfter(snapshot, ok)
    /\ IF useRedis
       THEN /\ Len(inflight) < MaxInflight
            /\ inflight' = Append(inflight, [data |-> snapshot, ok |-> ok])
            /\ UNCHANGED <<stored, kv, useRedis>>
       ELSE /\ stored' = SaveAlerts(stored, snapshot, ok)
            /\ UNCHANGED <<kv, inflight, useRedis>>

\* an operation that does not call saveAlerts
NoSave == UNCHANGED <<stored, storeVars>>

\* the file after checkAlerts: the snapshot taken by its last saveAlerts call
StoredAfterCheck(old, als, symbol, currentPrice, previousPrice, ok) ==
    LET k == LastSaveIndex(als, symbol, currentPrice, previousPrice)
    IN  IF k = 0 THEN old
        ELSE SaveAlerts(old, AlertsAfter(als, k, symbol, currentPrice, previousPrice), ok)

\* the iterations of checkAlerts that call saveAlerts, in loop order
SaveIndexes(als, symbol, currentPrice, previousPrice) ==
    SelectSeq([i \in DOMAIN als |-> i],
              LAMBDA i : Fires(als[i], symbol, currentPrice, previousPrice)
                            /\ ~als[i].repeat)

\* the saves of a checkAlerts call: one per non-repeating rule fired, each
\* with the rule set as it is at that iteration
SaveAfterCheck(als, symbol, currentPrice, previousPrice, ok) ==
    LET saves == SaveIndexes(als, symbol, currentPrice, previousPrice)
        snaps == [k \in DOMAIN saves |->
                    [data |-> AlertsAfter(als, saves[k], symbol, currentPrice,
                                          previousPrice),
                     ok |-> ok]]
    IN  IF saves = <<>>
        THEN NoSave
        ELSE /\ writes' = WritesAfter(snaps[Len(snaps)].data, ok)
             /\ IF useRedis
                THEN /\ Len(inflight) + Len(saves) <= MaxInflight
                     /\ inflight' = inflight \o snaps
                     /\ UNCHANGED <<stored, kv, useRedis>>
                ELSE /\ stored' = StoredAfterCheck(stored, als, symbol, currentPrice,
                                                   previousPrice, ok)
                     /\ UNCHANGED <<kv, inflight, useRedis>>

\* history of checkAlerts: each rule pushed has fired once more
HistAfterCheck(h, als, symbol, currentPrice, previousPrice) ==
    [i \in DOMAIN h |->
        IF Fires(als[i], symbol, currentPrice, previousPrice)
        THEN [h[i] EXCEPT !.fires = Min(@ + 1, MaxFires)]
        ELSE h[i]]

\* history of a tick no callback saw: the symbol's rules have missed a tick
HistMissed(h, als, symbol) ==
    [i \in DOMAIN h |->
        IF als[i].symbol = symbol THEN [h[i] EXCEPT !.sawAll = FALSE] ELSE h[i]]

CheckAlerts(cb, symbol, currentPrice, previousPrice, ok) ==
    /\ alerts' = AlertsAfter(alerts, Len(alerts), symbol, currentPrice, previousPrice)
    /\ SaveAfterCheck(alerts, symbol, currentPrice, previousPrice, ok)
    /\ hist' = HistAfterCheck(hist, alerts, symbol, currentPrice, previousPrice)
    /\ pre' = alerts
    /\ ret' = [op |-> "checkAlerts",
               cb |-> cb,
               symbol |-> symbol,
               current |-> currentPrice,
               previous |-> previousPrice,
               fired |-> FiredIndexes(alerts, symbol, currentPrice, previousPrice)]

(***************************************************************************)
(* DerivClient._handleMessage, tick branch, with the registered callback   *)
(* (handlePriceTick and the bot's handlers all call checkAlerts)           *)
(***************************************************************************)
\* PrevData taking 0 as the price before the first observation
PrevDataZero(symbol, price) ==
    IF symbol \in DOMAIN prices
    THEN prices[symbol]
    ELSE [current |-> 0, previous |-> 0]

\* prevData: the stored sample, or the tick itself on first observation
PrevData(symbol, price) ==
    IF symbol \in DOMAIN prices
    THEN prices[symbol]
    ELSE [current |-> price, previous |-> price]

\* the sample written for a tick
NewSample(prevData, price) == [previous |-> prevData.current, current |-> price]

PricesSet(symbol, sample) ==
    [s \in (DOMAIN prices) \cup {symbol} |->
        IF s = symbol THEN sample ELSE prices[s]]

\* the latest MaxLog quotes of a symbol, oldest first
LogAppend(log, price) ==
    LET l == Append(log, price)
    IN  IF Len(l) > MaxLog THEN Tail(l) ELSE l

HandleTick(symbol, price, ok) ==
    LET prevData == PrevData(symbol, price)
    IN  /\ prices' = PricesSet(symbol, NewSample(prevData, price))
        /\ tickCount' = [tickCount EXCEPT ![symbol] = Min(@ + 1, MaxTicks)]
        /\ tickLog' = [tickLog EXCEPT ![symbol] = LogAppend(@, price)]
        /\ IF MapHas(callbacks, symbol)
           THEN CheckAlerts(MapGet(callbacks, symbol), symbol, price, prevData.current, ok)
           ELSE /\ ret' = [op |-> "tick", symbol |-> symbol]
                /\ hist' = HistMissed(hist, alerts, symbol)
                /\ pre' = alerts
                /\ UNCHANGED alerts
                /\ NoSave
        /\ UNCHANGED <<callbacks, connVars, subVars, symbolVars>>

\* the messages _handleMessage takes that are not ticks: a ping answer, an
\* error payload, anything else
OtherKinds == {"ping", "error", "other"}

\* HandleOther passing an error payload on to the first callback registered
HandleOtherNotifies(kind) ==
    /\ ~exited
    /\ wsState = "open"
    /\ ret' = IF kind = "error" /\ callbacks # <<>>
              THEN [op |-> "checkAlerts", cb |-> callbacks[1][2], symbol |-> callbacks[1][1],
                    current |-> 0, previous |-> 0, fired |-> <<>>]
              ELSE [op |-> "message", kind |-> kind]
    /\ pre' = alerts
    /\ UNCHANGED <<alerts, hist>>
    /\ NoSave
    /\ UNCHANGED clientVars

\* _handleMessage, the branches that are not a tick: a ping answer is
\* dropped, an error payload is logged, any other message matches no branch
HandleOther(kind) ==
    /\ ~exited
    /\ wsState = "open"
    /\ ret' = [op |-> "message", kind |-> kind]
    /\ pre' = alerts
    /\ UNCHANGED <<alerts, hist>>
    /\ NoSave
    /\ UNCHANGED clientVars

\* null, as a number no quote equals
Null == -1

\* getPrice: prices.get(symbol)?.current || null (a falsy current gives null)
GetPrice(symbol) ==
    IF symbol \in DOMAIN prices /\ prices[symbol].current # 0
    THEN prices[symbol].current
    ELSE Null

(***************************************************************************)
(* DerivClient: connection, subscriptions, reconnect                       *)
(***************************************************************************)
\* a string is the sequence of its characters
Lower ==
    <<"a", "b", "c", "d", "e", "f", "g", "h", "i", "j", "k", "l", "m",
      "n", "o", "p", "q", "r", "s", "t", "u", "v", "w", "x", "y", "z">>

Upper ==
    <<"A", "B", "C", "D", "E", "F", "G", "H", "I", "J", "K", "L", "M",
      "N", "O", "P", "Q", "R", "S", "T", "U", "V", "W", "X", "Y", "Z">>

ToUpperChar(c) ==
    IF \E i \in DOMAIN Lower : Lower[i] = c
    THEN Upper[CHOOSE i \in DOMAIN Lower : Lower[i] = c]
    ELSE c

\* String.prototype.toUpperCase
ToUpperCase(str) == [i \in DOMAIN str |-> ToUpperChar(str[i])]

\* the entries of SYMBOL_ALIASES, in the order of the literal
SYMBOL_ALIASES ==
    <<<<<<"B", "T", "C">>, <<"c", "r", "y", "B", "T", "C", "U", "S", "D">>>>,
       <<<<"B", "T", "C", "U", "S", "D">>, <<"c", "r", "y", "B", "T", "C", "U", "S", "D">>>>,
       <<<<"B", "I", "T", "C", "O", "I", "N">>, <<"c", "r", "y", "B", "T", "C", "U", "S", "D">>>>,
       <<<<"E", "T", "H">>, <<"c", "r", "y", "E", "T", "H", "U", "S", "D">>>>,
       <<<<"E", "T", "H", "U", "S", "D">>, <<"c", "r", "y", "E", "T", "H", "U", "S", "D">>>>,
       <<<<"E", "T", "H", "E", "R", "E", "U", "M">>, <<"c", "r", "y", "E", "T", "H", "U", "S", "D">>>>,
       <<<<"X", "A", "U">>, <<"f", "r", "x", "X", "A", "U", "U", "S", "D">>>>,
       <<<<"X", "A", "U", "U", "S", "D">>, <<"f", "r", "x", "X", "A", "U", "U", "S", "D">>>>,
       <<<<"G", "O", "L", "D">>, <<"f", "r", "x", "X", "A", "U", "U", "S", "D">>>>,
       <<<<"X", "A", "G">>, <<"f", "r", "x", "X", "A", "G", "U", "S", "D">>>>,
       <<<<"X", "A", "G", "U", "S", "D">>, <<"f", "r", "x", "X", "A", "G", "U", "S", "D">>>>,
       <<<<"S", "I", "L", "V", "E", "R">>, <<"f", "r", "x", "X", "A", "G", "U", "S", "D">>>>,
       <<<<"X", "P", "T">>, <<"f", "r", "x", "X", "P", "T", "U", "S", "D">>>>,
       <<<<"P", "L", "A", "T", "I", "N", "U", "M">>, <<"f", "r", "x", "X", "P", "T", "U", "S", "D">>>>,
       <<<<"X", "P", "D">>, <<"f", "r", "x", "X", "P", "D", "U", "S", "D">>>>,
       <<<<"P", "A", "L", "L", "A", "D", "I", "U", "M">>, <<"f", "r", "x", "X", "P", "D", "U", "S", "D">>>>,
       <<<<"V", "1", "0">>, <<"R", "_", "1", "0">>>>,
       <<<<"V", "2", "5">>, <<"R", "_", "2", "5">>>>,
       <<<<"V", "5", "0">>, <<"R", "_", "5", "0">>>>,
       <<<<"V", "7", "5">>, <<"R", "_", "7", "5">>>>,
       <<<<"V", "1", "0", "0">>, <<"R", "_", "1", "0", "0">>>>,
       <<<<"V", "O", "L", "1", "0">>, <<"R", "_", "1", "0">>>>,
       <<<<"V", "O", "L", "2", "5">>, <<"R", "_", "2", "5">>>>,
       <<<<"V", "O", "L", "5", "0">>, <<"R", "_", "5", "0">>>>,
       <<<<"V", "O", "L", "7", "5">>, <<"R", "_", "7", "5">>>>,
       <<<<"V", "O", "L", "1", "0", "0">>, <<"R", "_", "1", "0", "0">>>>>>

\* the smallest member of a non-empty set of positions
First(S) == CHOOSE i \in S : \A j \in S : i <= j

\* the markets fetchActiveSymbols keeps
AllowedMarkets == {"synthetic_index", "cryptocurrency", "commodities"}

\* the active_symbols answer of the feed the model uses: two volatility
\* indices, a step index, and a forex pair that the filter drops
FeedAnswer ==
    <<[symbol |-> <<"R", "_", "1", "0">>, market |-> "synthetic_index"],
      [symbol |-> <<"R", "_", "2", "5">>, market |-> "synthetic_index"],
      [symbol |-> <<"s", "t", "p", "R", "N", "G">>, market |-> "synthetic_index"],
      [symbol |-> <<"f", "r", "x", "A", "U", "D", "J", "P", "Y">>, market |-> "forex"]>>

\* activeSymbols after clear() and a set() per symbol of an allowed market:
\* the keys in the order of the answer, a repeated symbol at its first place
ActiveAfter(answer) ==
    LET kept == SelectSeq(answer, LAMBDA e : e.market \in AllowedMarkets)
        firsts == SelectSeq([i \in DOMAIN kept |-> i],
                            LAMBDA i : \A j \in 1..(i - 1) :
                                            kept[j].symbol # kept[i].symbol)
    IN  [k \in DOMAIN firsts |-> kept[firsts[k]].symbol]

\* ResolveSymbol returning the uppercased input when nothing matches
ResolveSymbolUpper(input) ==
    LET upper == ToUpperCase(input)
        hits == {i \in DOMAIN SYMBOL_ALIASES : SYMBOL_ALIASES[i][1] = upper}
        matches == {i \in DOMAIN activeSymbols : ToUpperCase(activeSymbols[i]) = upper}
    IN  IF hits # {} THEN SYMBOL_ALIASES[First(hits)][2]
        ELSE IF matches # {} THEN activeSymbols[First(matches)]
        ELSE upper

\* resolveSymbol: the alias table under the uppercased input, then the
\* first key of activeSymbols equal to it ignoring case, then the input
ResolveSymbol(input) ==
    LET upper == ToUpperCase(input)
        hits == {i \in DOMAIN SYMBOL_ALIASES : SYMBOL_ALIASES[i][1] = upper}
        matches == {i \in DOMAIN activeSymbols : ToUpperCase(activeSymbols[i]) = upper}
    IN  IF hits # {} THEN SYMBOL_ALIASES[First(hits)][2]
        ELSE IF matches # {} THEN activeSymbols[First(matches)]
        ELSE input

\* GetAlias taking the last entry of the table that maps to the symbol
GetAliasLast(derivSymbol) ==
    LET S == {i \in DOMAIN SYMBOL_ALIASES : SYMBOL_ALIASES[i][2] = derivSymbol}
        Last == CHOOSE i \in S : \A j \in S : j <= i
    IN  IF S = {}
        THEN [found |-> FALSE, alias |-> <<>>]
        ELSE [found |-> TRUE, alias |-> SYMBOL_ALIASES[Last][1]]

\* getAlias: the first entry of the table, in its order, that maps to the
\* symbol and whose alias has at most 4 characters; null when none
GetAlias(derivSymbol) ==
    LET S == {i \in DOMAIN SYMBOL_ALIASES :
                /\ SYMBOL_ALIASES[i][2] = derivSymbol
                /\ Len(SYMBOL_ALIASES[i][1]) <= 4}
    IN  IF S = {}
        THEN [found |-> FALSE, alias |-> <<>>]
        ELSE [found |-> TRUE, alias |-> SYMBOL_ALIASES[First(S)][1]]

\* resolveSymbol(input) called by a command of the bot
ResolveCall(input) ==
    /\ ~exited
    /\ ret' = [op |-> "resolveSymbol", input |-> input, value |-> ResolveSymbol(input)]
    /\ UNCHANGED <<alertVars, clientVars>>

\* getAlias(symbol) called by a message of the bot
AliasCall(derivSymbol) ==
    /\ ~exited
    /\ ret' = [op |-> "getAlias", symbol |-> derivSymbol, value |-> GetAlias(derivSymbol)]
    /\ UNCHANGED <<alertVars, clientVars>>

\* a Map whose order is never read: a function on its keys
SubsSet(subs, symbol, id) ==
    [s \in (DOMAIN subs) \cup {symbol} |-> IF s = symbol THEN id ELSE subs[s]]

SubsDelete(subs, symbol) == [s \in (DOMAIN subs) \ {symbol} |-> subs[s]]

\* the callbacks Map as a function symbol -> callback
AsFunction(m) == [s \in MapKeys(m) |-> MapGet(m, s)]

\* the subscription id the feed issues for a request: unique per connection
\* and request
HandleOf(c, r) == <<c, r>>

NoReplay == [active |-> FALSE, idx |-> 0, awaiting |-> 0]

\* the Map iterator of the re-subscribe loop after a delete: entries behind
\* it move up
IdxAfterDelete(m, k, idx) ==
    IF MapHas(m, k) /\ MapIndex(m, k) <= idx THEN idx - 1 ELSE idx

\* the state of a client just constructed
ClientConstructed ==
    /\ prices = <<>>
    /\ callbacks = <<>>
    /\ tickCount = [s \in Symbols |-> 0]
    /\ tickLog = [s \in Symbols |-> <<>>]
    /\ conn = 0
    /\ wsState = "none"
    /\ connectBy = "main"
    /\ connected = FALSE
    /\ reconnectAttempts = 0
    /\ timer = 0
    /\ pingInterval = FALSE
    /\ exited = FALSE
    /\ reqId = 0
    /\ subscriptions = <<>>
    /\ pending = {}
    /\ upstream = {}
    /\ replay = NoReplay
    /\ atClose = <<>>
    /\ quiet = TRUE
    /\ activeSymbols = <<>>

\* connect(): a new socket replaces this.ws
Connect(by) ==
    /\ conn' = conn + 1
    /\ wsState' = "connecting"
    /\ connectBy' = by

\* main calls connect() once, at start
MainConnect ==
    /\ ~exited
    /\ wsState = "none"
    /\ Connect("main")
    /\ ret' = [op |-> "connect"]
    /\ UNCHANGED <<connected, reconnectAttempts, timer, pingInterval, exited>>
    /\ UNCHANGED <<alertVars, symbolVars, priceVars, callbacks, subVars>>

\* the 'open' handler; a connect() awaited by the reconnect timer goes on to
\* the re-subscribe loop
\* OpenAttempts leaving the counter as the failed attempts left it
OpenAttemptsKept == reconnectAttempts

\* the 'open' handler: this.reconnectAttempts = 0
OpenAttempts == 0

Open ==
    /\ ~exited
    /\ wsState = "connecting"
    /\ wsState' = "open"
    /\ connected' = TRUE
    /\ reconnectAttempts' = OpenAttempts
    /\ pingInterval' = TRUE
    /\ replay' = IF connectBy = "timer"
                 THEN [active |-> TRUE, idx |-> 0, awaiting |-> 0]
                 ELSE replay
    /\ ret' = [op |-> "open"]
    /\ UNCHANGED <<conn, connectBy, timer, exited>>
    /\ UNCHANGED <<reqId, subscriptions, pending, upstream, atClose, quiet>>
    /\ UNCHANGED <<alertVars, symbolVars, priceVars, callbacks>>

\* the reconnect delay in ms, computed after the counter is incremented
Delay(attempts) == Min(1000 * (2 ^ attempts), 30000)

\* AttemptReconnect allowing one attempt more than the limit
AttemptReconnectOffByOne ==
    IF reconnectAttempts > MaxReconnectAttempts
    THEN /\ exited' = TRUE
         /\ UNCHANGED <<reconnectAttempts, timer>>
    ELSE /\ reconnectAttempts' = reconnectAttempts + 1
         /\ timer' = Delay(reconnectAttempts + 1)
         /\ UNCHANGED exited

\* AttemptReconnect scheduling nothing
AttemptReconnectNever == UNCHANGED <<reconnectAttempts, timer, exited>>

\* _attemptReconnect, up to the setTimeout
AttemptReconnect ==
    IF reconnectAttempts >= MaxReconnectAttempts
    THEN /\ exited' = TRUE
         /\ UNCHANGED <<reconnectAttempts, timer>>
    ELSE /\ reconnectAttempts' = reconnectAttempts + 1
         /\ timer' = Delay(reconnectAttempts + 1)
         /\ UNCHANGED exited

\* StopPing leaving the interval running
StopPingKeepsInterval == pingInterval

\* _stopPing: the interval is cleared
StopPing == FALSE

\* the 'close' handler of an open socket (the connection is lost, or closed
\* by disconnect(), which the handler does not tell apart): the feed
\* drops the connection's subscriptions, a running re-subscribe loop never
\* resumes, calls awaiting a response stay as they are
Close ==
    /\ ~exited
    /\ wsState \in {"open", "closing"}
    /\ wsState' = "closed"
    /\ connected' = FALSE
    /\ pingInterval' = StopPing
    /\ AttemptReconnect
    /\ upstream' = {}
    /\ replay' = NoReplay
    /\ atClose' = AsFunction(callbacks)
    /\ quiet' = TRUE
    /\ ret' = [op |-> "close"]
    /\ UNCHANGED <<conn, connectBy>>
    /\ UNCHANGED <<reqId, subscriptions, pending>>
    /\ UNCHANGED <<alertVars, symbolVars, priceVars, callbacks>>

\* the 'error' then 'close' handlers of a socket that fails to open: connect()
\* rejects (main exits the process, the timer's catch logs), then the close
\* handler runs
ConnError ==
    /\ ~exited
    /\ wsState = "connecting"
    /\ wsState' = "closed"
    /\ connected' = FALSE
    /\ pingInterval' = StopPing
    /\ IF connectBy = "main"
       THEN /\ exited' = TRUE
            /\ reconnectAttempts' = reconnectAttempts + 1
            /\ timer' = Delay(reconnectAttempts + 1)
       ELSE AttemptReconnect
    /\ ret' = [op |-> "error"]
    /\ UNCHANGED <<conn, connectBy>>
    /\ UNCHANGED subVars
    /\ UNCHANGED <<alertVars, symbolVars, priceVars, callbacks>>

\* the setTimeout callback of _attemptReconnect: connect()
TimerConnect ==
    /\ ~exited
    /\ timer # 0
    /\ timer' = 0
    /\ Connect("timer")
    /\ ret' = [op |-> "timer"]
    /\ UNCHANGED <<connected, reconnectAttempts, pingInterval, exited>>
    /\ UNCHANGED <<alertVars, symbolVars, priceVars, callbacks, subVars>>

\* the callback, on one of the first MaxConn connections
TimerFire ==
    /\ conn < MaxConn
    /\ TimerConnect

\* disconnect() on a connected client: the interval is cleared, ws.close()
\* starts the closing handshake; the 'close' event follows
Disconnect ==
    /\ ~exited
    /\ wsState = "open"
    /\ pingInterval' = StopPing
    /\ wsState' = "closing"
    /\ ret' = [op |-> "disconnect"]
    /\ UNCHANGED <<conn, connectBy, connected, reconnectAttempts, timer, exited>>
    /\ UNCHANGED <<alertVars, symbolVars, priceVars, callbacks, subVars>>

\* the SIGINT handler of index.js: disconnect(), then process.exit(0)
Shutdown ==
    /\ ~exited
    /\ pingInterval' = StopPing
    /\ wsState' = IF wsState = "open" THEN "closing" ELSE wsState
    /\ exited' = TRUE
    /\ ret' = [op |-> "shutdown"]
    /\ UNCHANGED <<conn, connectBy, connected, reconnectAttempts, timer>>
    /\ UNCHANGED <<alertVars, symbolVars, priceVars, callbacks, subVars>>

\* the interval callback's test: a ping is sent only while connected
PingSends == connected

\* the interval callback of _startPing, every 30 s while the interval lives
Ping ==
    /\ ~exited
    /\ pingInterval
    /\ ret' = [op |-> "ping", sent |-> PingSends]
    /\ UNCHANGED <<alertVars, symbolVars, priceVars, callbacks, connVars, subVars>>

\* history: the program has called subscribe or unsubscribe since the last
\* loss of the connection, so what was registered then is no longer recorded
Interfere ==
    /\ quiet' = FALSE
    /\ atClose' = <<>>

\* FastPathCallbacks keeping the callback registered before
FastPathKeepCallback(symbol, callback) == callbacks

\* subscribe(), first branch: the callbacks Map after callbacks.set
FastPathCallbacks(symbol, callback) == MapSet(callbacks, symbol, callback)

\* what happens to a request written to a socket that is not open: send throws
\* (the call rejects), or, on a closed socket, drops it (the call stays pending)
SendOutcomes ==
    IF wsState \in {"closed", "closing"} THEN {"rejected", "pending"} ELSE {"rejected"}

\* subscribe(symbol, callback) called by the program (main, the bot's commands)
Subscribe(symbol, callback) ==
    /\ ~exited
    /\ Interfere
    /\ IF symbol \in DOMAIN subscriptions
       THEN /\ callbacks' = FastPathCallbacks(symbol, callback)
            /\ ret' = [op |-> "subscribe", symbol |-> symbol, cb |-> callback,
                       value |-> "resolved"]
            /\ UNCHANGED <<reqId, pending>>
       ELSE /\ reqId < MaxReqId
            /\ reqId' = reqId + 1
            /\ \E outcome \in (IF wsState = "open" THEN {"pending"} ELSE SendOutcomes) :
                /\ pending' = IF outcome = "pending"
                              THEN pending \cup {[reqId |-> reqId + 1, symbol |-> symbol,
                                                  cb |-> callback, conn |-> conn,
                                                  replay |-> FALSE]}
                              ELSE pending
                /\ ret' = [op |-> "subscribe", symbol |-> symbol, cb |-> callback,
                           value |-> outcome]
            /\ UNCHANGED callbacks
    /\ UNCHANGED <<subscriptions, upstream, replay>>
    /\ UNCHANGED <<alertVars, symbolVars, priceVars, connVars>>

\* unsubscribe(symbol): the forget is sent first; when send throws, the
\* records are kept
Unsubscribe(symbol) ==
    /\ ~exited
    /\ Interfere
    /\ IF symbol \notin DOMAIN subscriptions
       THEN /\ ret' = [op |-> "unsubscribe", symbol |-> symbol, value |-> "none"]
            /\ UNCHANGED <<subscriptions, callbacks, upstream, replay>>
       ELSE \E outcome \in (IF wsState = "open" THEN {"sent"}
                            ELSE IF wsState \in {"closed", "closing"}
                                 THEN {"threw", "dropped"}
                            ELSE {"threw"}) :
            /\ ret' = [op |-> "unsubscribe", symbol |-> symbol, value |-> outcome]
            /\ IF outcome = "threw"
               THEN UNCHANGED <<subscriptions, callbacks, upstream, replay>>
               ELSE /\ upstream' = IF outcome = "sent"
                                   THEN {u \in upstream : u.handle # subscriptions[symbol]}
                                   ELSE upstream
                    /\ subscriptions' = SubsDelete(subscriptions, symbol)
                    /\ callbacks' = MapDelete(callbacks, symbol)
                    /\ replay' = IF replay.active
                                 THEN [replay EXCEPT
                                        !.idx = IdxAfterDelete(callbacks, symbol, @)]
                                 ELSE replay
    /\ UNCHANGED <<reqId, pending>>
    /\ UNCHANGED <<alertVars, symbolVars, priceVars, connVars>>

\* Consumers taking a message for every handler registered on the socket
ConsumersAnyId(r) == {q \in pending : q.conn = conn}

\* the messageHandlers that take a message echoing req_id r: those
\* registered on this socket whose reqId is r (if (msg.req_id === reqId))
Consumers(r) == {q \in pending : q.conn = conn /\ q.reqId = r}

\* RespondSubs recording the id whatever the answer
RespondSubsAlways(p, accepted) ==
    SubsSet(subscriptions, p.symbol, HandleOf(conn, p.reqId))

\* the subscriptions Map after the messageHandler of request p has run:
\* msg.subscription.id is recorded, an error records nothing
RespondSubs(p, accepted) ==
    IF accepted
    THEN SubsSet(subscriptions, p.symbol, HandleOf(conn, p.reqId))
    ELSE subscriptions

\* the feed answers a request of the current connection, and the call's
\* messageHandler takes the answer: a subscription (the id is recorded with
\* the callback, the call resolves) or an error (the call rejects); the
\* re-subscribe loop goes on after a resolve and ends in its catch on a reject
FeedRespond(p, accepted) ==
    /\ ~exited
    /\ wsState = "open"
    /\ p \in pending
    /\ p.conn = conn
    /\ p.symbol \in Symbols
    /\ pending' = pending \ Consumers(p.reqId)
    /\ subscriptions' = RespondSubs(p, accepted)
    /\ IF accepted
       THEN /\ upstream' = upstream \cup
                    {[symbol |-> p.symbol, handle |-> HandleOf(conn, p.reqId)]}
            /\ callbacks' = MapSet(callbacks, p.symbol, p.cb)
            /\ replay' = IF p.replay THEN [replay EXCEPT !.awaiting = 0] ELSE replay
       ELSE /\ replay' = IF p.replay THEN NoReplay ELSE replay
            /\ UNCHANGED <<upstream, callbacks>>
    /\ ret' = [op |-> "response",
               value |-> IF accepted THEN "resolved" ELSE "rejected"]
    /\ UNCHANGED <<reqId, atClose, quiet>>
    /\ UNCHANGED <<alertVars, symbolVars, priceVars, connVars>>

\* the request name fetchActiveSymbols sends in place of a symbol
ActiveSymbols == "active_symbols"

\* fetchActiveSymbols(): the next request id, the messageHandler registered,
\* the request written to the socket
FetchActiveSymbols ==
    /\ ~exited
    /\ wsState # "none"
    /\ reqId < MaxReqId
    /\ reqId' = reqId + 1
    /\ \E outcome \in (IF wsState = "open" THEN {"pending"} ELSE SendOutcomes) :
        /\ pending' = IF outcome = "pending"
                      THEN pending \cup {[reqId |-> reqId + 1, symbol |-> ActiveSymbols,
                                          cb |-> "none", conn |-> conn,
                                          replay |-> FALSE]}
                      ELSE pending
        /\ ret' = [op |-> "fetchActiveSymbols", value |-> outcome]
    /\ UNCHANGED <<subscriptions, callbacks, upstream, replay, atClose, quiet>>
    /\ UNCHANGED <<alertVars, symbolVars, priceVars, connVars>>

\* the feed answers a fetchActiveSymbols request of the current connection:
\* the handler is removed, the call resolves with the symbols or rejects
FetchRespond(p, accepted, answer) ==
    /\ ~exited
    /\ wsState = "open"
    /\ p \in pending
    /\ p.conn = conn
    /\ p.symbol = ActiveSymbols
    /\ pending' = pending \ Consumers(p.reqId)
    /\ activeSymbols' = IF accepted THEN ActiveAfter(answer) ELSE activeSymbols
    /\ ret' = [op |-> "symbols",
               value |-> IF accepted THEN "resolved" ELSE "rejected"]
    /\ UNCHANGED <<reqId, subscriptions, callbacks, upstream, replay, atClose, quiet>>
    /\ UNCHANGED <<alertVars, priceVars, connVars>>

\* ReplaySubs leaving the stale subscription id in place
ReplaySubsKeepStale(symbol) == subscriptions

\* the re-subscribe loop: subscriptions after this.subscriptions.delete(symbol)
ReplaySubs(symbol) == SubsDelete(subscriptions, symbol)

\* one iteration of the re-subscribe loop, up to its await: the next entry of
\* the callbacks Map, the stale id deleted, subscribe(symbol, callback) called
ReplayNext ==
    /\ ~exited
    /\ replay.active
    /\ replay.awaiting = 0
    /\ IF replay.idx >= Len(callbacks)
       THEN /\ replay' = NoReplay
            /\ ret' = [op |-> "replayDone"]
            /\ UNCHANGED <<reqId, subscriptions, pending, callbacks>>
       ELSE LET symbol == callbacks[replay.idx + 1][1]
                callback == callbacks[replay.idx + 1][2]
                subs == ReplaySubs(symbol)
            IN  /\ subscriptions' = subs
                /\ ret' = [op |-> "replay"]
                /\ IF symbol \in DOMAIN subs
                   THEN /\ callbacks' = FastPathCallbacks(symbol, callback)
                        /\ replay' = [replay EXCEPT !.idx = @ + 1]
                        /\ UNCHANGED <<reqId, pending>>
                   ELSE /\ reqId < MaxReqId
                        /\ reqId' = reqId + 1
                        /\ pending' = pending \cup
                                {[reqId |-> reqId + 1, symbol |-> symbol, cb |-> callback,
                                  conn |-> conn, replay |-> TRUE]}
                        /\ replay' = [replay EXCEPT !.idx = @ + 1,
                                                    !.awaiting = reqId + 1]
                        /\ UNCHANGED callbacks
    /\ UNCHANGED <<upstream, atClose, quiet>>
    /\ UNCHANGED <<alertVars, symbolVars, priceVars, connVars>>

(***************************************************************************)
(* AlertManager: rule mutations                                            *)
(***************************************************************************)
\* MaxId taking every rule set as empty
MaxIdZero(als) == 0

MaxId(als) ==
    LET ids == {als[i].id : i \in DOMAIN als} \cup {0}
    IN  CHOOSE m \in ids : \A x \in ids : x <= m

\* history of a new rule: it has not fired, and has missed no tick when its
\* symbol has had none
NewHist(symbol) == [fires |-> 0, sawAll |-> symbol \notin DOMAIN prices]

\* AddAlert undoing the addition when the write fails
AddAlertRollsBack(symbol, name, condition, price, repeat, ok) ==
    LET newAlert == [id |-> MaxId(alerts) + 1,
                     symbol |-> symbol,
                     name |-> name,
                     condition |-> condition,
                     price |-> price,
                     enabled |-> TRUE,
                     repeat |-> repeat,
                     triggered |-> FALSE]
    IN  /\ alerts' = IF ok THEN Append(alerts, newAlert) ELSE alerts
        /\ Save(Append(alerts, newAlert), ok)
        /\ hist' = IF ok THEN Append(hist, NewHist(symbol)) ELSE hist
        /\ pre' = alerts
        /\ ret' = [op |-> "addAlert", value |-> newAlert]
        /\ UNCHANGED clientVars

AddAlert(symbol, name, condition, price, repeat, ok) ==
    LET newAlert == [id |-> MaxId(alerts) + 1,
                     symbol |-> symbol,
                     name |-> name,
                     condition |-> condition,
                     price |-> price,
                     enabled |-> TRUE,
                     repeat |-> repeat,
                     triggered |-> FALSE]
    IN  /\ alerts' = Append(alerts, newAlert)
        /\ Save(alerts', ok)
        /\ hist' = Append(hist, NewHist(symbol))
        /\ pre' = alerts
        /\ ret' = [op |-> "addAlert", value |-> newAlert]
        /\ UNCHANGED clientVars

\* alerts.find(a => a.id === id): the first rule with that id, 0 when none
FindIndex(als, id) ==
    LET S == {i \in DOMAIN als : als[i].id = id}
    IN  IF S = {} THEN 0 ELSE CHOOSE i \in S : \A j \in S : i <= j

\* NotFound calling saveAlerts before it returns false
NotFoundSaves(op, id) ==
    /\ ret' = [op |-> op, id |-> id, value |-> FALSE]
    /\ pre' = alerts
    /\ UNCHANGED <<alerts, hist>>
    /\ Save(alerts, TRUE)

\* a call with an id no rule has: returns false, nothing is written
NotFound(op, id) ==
    /\ ret' = [op |-> op, id |-> id, value |-> FALSE]
    /\ pre' = alerts
    /\ UNCHANGED <<alerts, hist>>
    /\ NoSave

EnableAlert(id, ok) ==
    LET i == FindIndex(alerts, id)
    IN  /\ IF i # 0
           THEN /\ alerts' = [alerts EXCEPT ![i].enabled = TRUE, ![i].triggered = FALSE]
                /\ Save(alerts', ok)
                /\ hist' = [hist EXCEPT ![i].fires = 0]
                /\ pre' = alerts
                /\ ret' = [op |-> "enableAlert", id |-> id, value |-> TRUE]
           ELSE NotFound("enableAlert", id)
        /\ UNCHANGED clientVars

\* DisableAlert resetting the triggered flag as enableAlert does
DisableAlertResets(id, ok) ==
    LET i == FindIndex(alerts, id)
    IN  /\ IF i # 0
           THEN /\ alerts' = [alerts EXCEPT ![i].enabled = FALSE, ![i].triggered = FALSE]
                /\ Save(alerts', ok)
                /\ hist' = [hist EXCEPT ![i].sawAll = FALSE]
                /\ pre' = alerts
                /\ ret' = [op |-> "disableAlert", id |-> id, value |-> TRUE]
           ELSE NotFound("disableAlert", id)
        /\ UNCHANGED clientVars

DisableAlert(id, ok) ==
    LET i == FindIndex(alerts, id)
    IN  /\ IF i # 0
           THEN /\ alerts' = [alerts EXCEPT ![i].enabled = FALSE]
                /\ Save(alerts', ok)
                /\ hist' = [hist EXCEPT ![i].sawAll = FALSE]
                /\ pre' = alerts
                /\ ret' = [op |-> "disableAlert", id |-> id, value |-> TRUE]
           ELSE NotFound("disableAlert", id)
        /\ UNCHANGED clientVars

ResetAlert(id, ok) ==
    LET i == FindIndex(alerts, id)
    IN  /\ IF i # 0
           THEN /\ alerts' = [alerts EXCEPT ![i].triggered = FALSE]
                /\ Save(alerts', ok)
                /\ hist' = [hist EXCEPT ![i].fires = 0]
                /\ pre' = alerts
                /\ ret' = [op |-> "resetAlert", id |-> id, value |-> TRUE]
           ELSE NotFound("resetAlert", id)
        /\ UNCHANGED clientVars

\* a sequence without its element at position i
RemoveAt(seq, i) == SubSeq(seq, 1, i - 1) \o SubSeq(seq, i + 1, Len(seq))

\* RenumberAlerts leaving the ids as they are
RenumberKeepIds(als) == als

\* renumberAlerts: alert.id = index + 1 for every rule
RenumberAlerts(als) == [i \in DOMAIN als |-> [als[i] EXCEPT !.id = i]]

\* removeAlert: findIndex, splice, renumberAlerts (which saves)
RemoveAlert(id, ok) ==
    LET i == FindIndex(alerts, id)
    IN  /\ IF i # 0
           THEN /\ alerts' = RenumberAlerts(RemoveAt(alerts, i))
                /\ Save(alerts', ok)
                /\ hist' = RemoveAt(hist, i)
                /\ pre' = alerts
                /\ ret' = [op |-> "removeAlert", id |-> id, value |-> TRUE]
           ELSE NotFound("removeAlert", id)
        /\ UNCHANGED clientVars

RemoveAllAlerts(ok) ==
    /\ alerts' = <<>>
    /\ Save(alerts', ok)
    /\ hist' = <<>>
    /\ pre' = alerts
    /\ ret' = [op |-> "removeAllAlerts", value |-> Len(alerts)]
    /\ UNCHANGED clientVars

\* KeptIndexes dropping every triggered rule, repeating or not
KeptIndexesUntriggered(als) ==
    SelectSeq([i \in DOMAIN als |-> i], LAMBDA i : ~als[i].triggered)

\* the positions clearTriggered keeps: !a.triggered || a.repeat
KeptIndexes(als) ==
    SelectSeq([i \in DOMAIN als |-> i],
              LAMBDA i : ~als[i].triggered \/ als[i].repeat)

\* clearTriggered: when a triggered non-repeating rule exists, the others
\* are kept and renumbered (renumberAlerts saves)
ClearTriggered(ok) ==
    LET kept == KeptIndexes(alerts)
        count == Len(alerts) - Len(kept)
    IN  /\ IF count > 0
           THEN /\ alerts' = RenumberAlerts([k \in DOMAIN kept |-> alerts[kept[k]]])
                /\ Save(alerts', ok)
                /\ hist' = [k \in DOMAIN kept |-> hist[kept[k]]]
           ELSE /\ UNCHANGED <<alerts, hist>>
                /\ NoSave
        /\ pre' = alerts
        /\ ret' = [op |-> "clearTriggered", value |-> count]
        /\ UNCHANGED clientVars

(***************************************************************************)
(* SpecEval: the alert engine fed by the tick handler, from start-up       *)
(***************************************************************************)
NoRet == [op |-> "none"]

\* new AlertManager(path): no key-value client, useRedis false, nothing saved
FileBackend ==
    /\ useRedis = FALSE
    /\ kv = <<>>
    /\ inflight = <<>>
    /\ writes = [failed |-> FALSE, started |-> FALSE, last |-> <<>>]

\* the client connected, the handler registered for both symbols (main
\* subscribes them at start, in this order)
ClientSubscribed ==
    /\ prices = <<>>
    /\ callbacks = <<<<"R_10", "handlePriceTick">>, <<"R_25", "handlePriceTick">>>>
    /\ tickCount = [s \in Symbols |-> 0]
    /\ tickLog = [s \in Symbols |-> <<>>]
    /\ conn = 1
    /\ wsState = "open"
    /\ connectBy = "main"
    /\ connected = TRUE
    /\ reconnectAttempts = 0
    /\ timer = 0
    /\ pingInterval = TRUE
    /\ exited = FALSE
    /\ reqId = 2
    /\ subscriptions = [s \in Symbols |-> HandleOf(1, IF s = "R_10" THEN 1 ELSE 2)]
    /\ pending = {}
    /\ upstream = {[symbol |-> s, handle |-> subscriptions[s]] : s \in Symbols}
    /\ replay = NoReplay
    /\ atClose = <<>>
    /\ quiet = FALSE
    /\ activeSymbols = ActiveAfter(FeedAnswer)

InitEval ==
    /\ alerts = <<>>
    /\ stored = <<>>
    /\ ret = NoRet
    /\ pre = <<>>
    /\ hist = <<>>
    /\ FileBackend
    /\ ClientSubscribed

Tick == \E symbol \in Symbols, price \in EvalQuotes : HandleTick(symbol, price, TRUE)

Add ==
    /\ Len(alerts) < MaxLiveAlerts
    /\ \E symbol \in Symbols, condition \in Conditions, price \in Targets, repeat \in BOOLEAN :
            AddAlert(symbol, symbol, condition, price, repeat, TRUE)

NextEval ==
    \/ Tick
    \/ Add

SpecEval == InitEval /\ [][NextEval]_vars

(***************************************************************************)
(* SpecPrices: the price store under any tick message, no rule defined     *)
(***************************************************************************)
InitPrices == InitEval

\* a tick message carries any number as its quote, 0 included
TickAny == \E symbol \in Symbols, price \in Quotes : HandleTick(symbol, price, TRUE)

SpecPrices == InitPrices /\ [][TickAny]_vars

(***************************************************************************)
(* SpecCheck: checkAlerts called on any rule set with any prices           *)
(***************************************************************************)
RulesAt(id) ==
    {[id |-> id, symbol |-> symbol, name |-> symbol, condition |-> condition,
      price |-> price, enabled |-> enabled, repeat |-> repeat, triggered |-> triggered] :
        symbol \in Symbols, condition \in Conditions, price \in Targets,
        enabled \in BOOLEAN, repeat \in BOOLEAN, triggered \in BOOLEAN}

\* the rule sets of up to MaxAlerts rules numbered 1..N
RuleSets ==
    UNION {{als \in [1..n -> UNION {RulesAt(id) : id \in 1..n}] :
                \A i \in 1..n : als[i].id = i} : n \in 0..MaxAlerts}

InitCheck ==
    /\ alerts \in RuleSets
    /\ stored = alerts
    /\ ret = NoRet
    /\ pre = alerts
    /\ hist = [i \in DOMAIN alerts |-> [fires |-> 0, sawAll |-> FALSE]]
    /\ FileBackend
    /\ ClientConstructed

Check ==
    \E symbol \in Symbols, currentPrice \in EvalQuotes, previousPrice \in EvalQuotes :
        /\ CheckAlerts("direct", symbol, currentPrice, previousPrice, TRUE)
        /\ UNCHANGED clientVars

Enable == \E id \in 1..MaxAlerts : EnableAlert(id, TRUE)

Disable == \E id \in 1..MaxAlerts : DisableAlert(id, TRUE)

Reset == \E id \in 1..MaxAlerts : ResetAlert(id, TRUE)

NextCheck ==
    \/ Check
    \/ Enable
    \/ Disable
    \/ Reset

SpecCheck == InitCheck /\ [][NextCheck]_vars

(***************************************************************************)
(* SpecRules: the rule set built from nothing by the AlertManager's calls  *)
(***************************************************************************)
\* new AlertManager(...), init() not called: no rule; the client constructed
InitRules ==
    /\ alerts = <<>>
    /\ stored = <<>>
    /\ ret = NoRet
    /\ pre = <<>>
    /\ hist = <<>>
    /\ FileBackend
    /\ ClientConstructed

\* ids a caller may pass: those in use and one that is not
RuleIds == 1..(MaxRules + 1)

\* the rules added: symbol and repeat (the bot's commands add with the
\* default, repeat = false)
RuleKinds == {<<"R_10", FALSE>>, <<"R_25", FALSE>>, <<"R_25", TRUE>>}

AddRule ==
    /\ Len(alerts) < MaxRules
    /\ \E kind \in RuleKinds :
            AddAlert(kind[1], kind[1], "above", TargetPrice, kind[2], TRUE)

RemoveRule == \E id \in RuleIds : RemoveAlert(id, TRUE)

RemoveAllRules == RemoveAllAlerts(TRUE)

ClearTriggeredRules == ClearTriggered(TRUE)

EnableRule == \E id \in RuleIds : EnableAlert(id, TRUE)

DisableRule == \E id \in RuleIds : DisableAlert(id, TRUE)

ResetRule == \E id \in RuleIds : ResetAlert(id, TRUE)

\* a tick above the target reaches checkAlerts
CheckRules ==
    \E symbol \in Symbols :
        /\ CheckAlerts("direct", symbol, MaxPrice, MaxPrice, TRUE)
        /\ UNCHANGED clientVars

NextRules ==
    \/ AddRule
    \/ RemoveRule
    \/ RemoveAllRules
    \/ ClearTriggeredRules
    \/ EnableRule
    \/ DisableRule
    \/ ResetRule
    \/ CheckRules

SpecRules == InitRules /\ [][NextRules]_vars

(***************************************************************************)
(* SpecClient: the client's connection and subscriptions                   *)
(***************************************************************************)
InitClient ==
    /\ alerts = <<>>
    /\ stored = <<>>
    /\ ret = NoRet
    /\ pre = <<>>
    /\ hist = <<>>
    /\ FileBackend
    /\ ClientConstructed

UserSubscribe ==
    \E symbol \in Symbols, callback \in TickCallbacks : Subscribe(symbol, callback)

UserUnsubscribe == \E symbol \in Symbols : Unsubscribe(symbol)

Response == \E p \in pending, accepted \in BOOLEAN : FeedRespond(p, accepted)

NextClient ==
    \/ MainConnect
    \/ Open
    \/ ConnError
    \/ Close
    \/ TimerFire
    \/ UserSubscribe
    \/ UserUnsubscribe
    \/ Response
    \/ ReplayNext

SpecClient == InitClient /\ [][NextClient]_vars

(***************************************************************************)
(* SpecLife: the life of the connection, with one symbol subscribed        *)
(***************************************************************************)
\* an open connection is lost
Lose ==
    /\ wsState = "open"
    /\ conn <= MaxLossConn
    /\ Close

\* the transport reports the close disconnect() asked for
Closed ==
    /\ wsState = "closing"
    /\ Close

UserDisconnect ==
    /\ conn <= MaxLossConn
    /\ Disconnect

SubscribeOne == Subscribe("R_10", "handlePriceTick")

NextLife ==
    \/ MainConnect
    \/ Open
    \/ ConnError
    \/ Lose
    \/ Closed
    \/ UserDisconnect
    \/ Shutdown
    \/ TimerConnect
    \/ Ping
    \/ SubscribeOne
    \/ Response
    \/ ReplayNext

SpecLife == InitClient /\ [][NextLife]_vars

\* timers fire, the transport reports open, error or close for each attempt
\* and for each close asked for, the feed answers the requests of an open
\* connection, the re-subscribe loop runs
SpecLifeFair ==
    /\ SpecLife
    /\ WF_vars(TimerConnect)
    /\ WF_vars(Open \/ ConnError)
    /\ WF_vars(Closed)
    /\ WF_vars(Response)
    /\ WF_vars(ReplayNext)

(***************************************************************************)
(* Properties of checkAlerts and of the tick handler                       *)
(***************************************************************************)
\* the last operation was a checkAlerts call
Checked == ret.op = "checkAlerts"

\* rule i is in the list the last checkAlerts call returned
InFired(i) == \E k \in DOMAIN ret.fired : ret.fired[k] = i

\* rule r was evaluated by a call for symbol: enabled, same symbol, and not
\* both triggered and non-repeating
IsCandidate(r, symbol) ==
    r.enabled /\ r.symbol = symbol /\ ~(r.triggered /\ ~r.repeat)

\* C1: a non-repeating rule is returned by checkAlerts at most once in total
\* while it is not re-armed by resetAlert or enableAlert, whatever ticks follow.
C1_NonRepeatingFiresAtMostOnce ==
    \A i \in DOMAIN alerts : ~alerts[i].repeat => hist[i].fires <= 1

\* C1 witness: a non-repeating above rule that has fired once was checked
\* again on an upward crossing of its target and was not returned.
C1_Witness ==
    /\ Checked
    /\ \E i \in DOMAIN alerts :
        /\ ~alerts[i].repeat /\ alerts[i].enabled /\ alerts[i].condition = "above"
        /\ alerts[i].symbol = ret.symbol
        /\ hist[i].fires = 1
        /\ ret.current >= alerts[i].price /\ ret.previous < alerts[i].price
        /\ ~InFired(i)

\* C3: checkAlerts fires a candidate 'above' rule exactly when
\* (current >= target and previous < target) or (current >= target and not
\* triggered), and a candidate 'below' rule exactly when (current <= target
\* and previous > target) or (current <= target and not triggered); a fired
\* rule is returned and marked triggered.
C3_AboveBelowFireExactly ==
    Checked =>
        \A i \in DOMAIN pre :
            IsCandidate(pre[i], ret.symbol) =>
                /\ pre[i].condition = "above" =>
                    (InFired(i) <=>
                        \/ (ret.current >= pre[i].price /\ ret.previous < pre[i].price)
                        \/ (ret.current >= pre[i].price /\ ~pre[i].triggered))
                /\ pre[i].condition = "below" =>
                    (InFired(i) <=>
                        \/ (ret.current <= pre[i].price /\ ret.previous > pre[i].price)
                        \/ (ret.current <= pre[i].price /\ ~pre[i].triggered))
                /\ pre[i].condition \in {"above", "below"} =>
                    (alerts[i].triggered <=> (InFired(i) \/ pre[i].triggered))

\* C3 witness: an already triggered (repeating) 'above' rule fired on a call
\* with the current price exactly at its target and the previous one below.
C3_Witness ==
    /\ Checked
    /\ \E i \in DOMAIN pre :
        /\ pre[i].condition = "above" /\ pre[i].triggered
        /\ ret.current = pre[i].price /\ ret.previous < pre[i].price
        /\ InFired(i)

\* C4: checkAlerts fires a candidate 'crosses' rule exactly when
\* (current >= target and previous < target) or (current <= target and
\* previous > target), whatever its triggered flag; a call with
\* previous = current never fires it.
C4_CrossesFiresExactly ==
    Checked =>
        \A i \in DOMAIN pre :
            (IsCandidate(pre[i], ret.symbol) /\ pre[i].condition = "crosses") =>
                /\ InFired(i) <=>
                        \/ (ret.current >= pre[i].price /\ ret.previous < pre[i].price)
                        \/ (ret.current <= pre[i].price /\ ret.previous > pre[i].price)
                /\ ret.previous = ret.current => ~InFired(i)

\* C4 witness: an untriggered 'crosses' rule was checked with previous =
\* current, both beyond its target, and did not fire.
C4_Witness ==
    /\ Checked
    /\ \E i \in DOMAIN pre :
        /\ IsCandidate(pre[i], ret.symbol) /\ pre[i].condition = "crosses"
        /\ ~pre[i].triggered
        /\ ret.previous = ret.current /\ ret.current > pre[i].price
        /\ ~InFired(i)

\* the call's prices are a crossing of rule r's target in r's direction
QualifyingCrossing(r) ==
    \/ /\ r.condition \in {"above", "crosses"}
       /\ ret.previous < r.price /\ r.price <= ret.current
    \/ /\ r.condition \in {"below", "crosses"}
       /\ ret.previous > r.price /\ r.price >= ret.current

\* C6: an enabled repeating rule that has already fired (triggered) fires
\* again on every call that is a qualifying crossing of its target.
C6_RepeatingFiresAgain ==
    Checked =>
        \A i \in DOMAIN pre :
            (/\ pre[i].enabled /\ pre[i].repeat /\ pre[i].triggered
             /\ pre[i].symbol = ret.symbol
             /\ QualifyingCrossing(pre[i])) => InFired(i)

\* C6 witness: a repeating rule that had fired before fired once more on a
\* crossing, its second fire at least.
C6_Witness ==
    /\ Checked
    /\ \E i \in DOMAIN pre :
        /\ pre[i].repeat /\ pre[i].triggered /\ QualifyingCrossing(pre[i])
        /\ InFired(i)
        /\ hist[i].fires >= 2

\* rule i is a 'cond' rule that has been evaluated on every tick of its symbol
SawEveryTick(i, cond) ==
    /\ alerts[i].condition = cond /\ ~alerts[i].repeat /\ alerts[i].enabled
    /\ hist[i].sawAll

\* C2: for an enabled non-repeating 'above' rule fed by the tick handler: a
\* tick below the target does not fire it while it is untriggered, the first
\* tick at or above the target (the very first tick of the symbol included)
\* fires it, once, and no later tick fires it again.
C2_AboveThroughHandler ==
    /\ Checked =>
        \A i \in DOMAIN pre :
            (/\ pre[i].condition = "above" /\ pre[i].enabled /\ ~pre[i].repeat
             /\ pre[i].symbol = ret.symbol) =>
                /\ (~pre[i].triggered /\ ret.current < pre[i].price) =>
                        (~InFired(i) /\ ~alerts[i].triggered /\ hist[i].fires = 0)
                /\ (~pre[i].triggered /\ ret.current >= pre[i].price) =>
                        (InFired(i) /\ alerts[i].triggered /\ hist[i].fires = 1)
                /\ pre[i].triggered =>
                        (~InFired(i) /\ alerts[i].triggered /\ hist[i].fires = 1)
    /\ \A i \in DOMAIN alerts :
        LET s == alerts[i].symbol
            T == alerts[i].price
        IN  SawEveryTick(i, "above") =>
                \* the sequences [T-1], [T+1] and [T-1, T+1]
                /\ (tickCount[s] = 1 /\ tickLog[s] = <<T - 1>>) => hist[i].fires = 0
                /\ (tickCount[s] = 1 /\ tickLog[s] = <<T + 1>>) => hist[i].fires = 1
                /\ (tickCount[s] = 2 /\ tickLog[s] = <<T - 1, T + 1>>) => hist[i].fires = 1

\* C2 witness: the rule saw a tick below its target, fired on the next tick
\* above it, and the tick after that, above the target again, did not fire it.
C2_Witness ==
    /\ Checked
    /\ \E i \in DOMAIN alerts :
        /\ SawEveryTick(i, "above")
        /\ alerts[i].symbol = ret.symbol
        /\ tickCount[ret.symbol] = 3
        /\ tickLog[ret.symbol] = <<alerts[i].price + 1, alerts[i].price + 1>>
        /\ hist[i].fires = 1
        /\ ~InFired(i)

\* the ticks of rule i's symbol so far are exactly [T+1, T+1], T its target
SawTwiceAbove(i) ==
    /\ SawEveryTick(i, "crosses")
    /\ tickCount[alerts[i].symbol] = 2
    /\ tickLog[alerts[i].symbol] = <<alerts[i].price + 1, alerts[i].price + 1>>

\* C5 as stated: a non-repeating 'crosses' rule fed [T+1, T+1] by the tick
\* handler fires once over the sequence.
C5_FiresOnce ==
    \A i \in DOMAIN alerts : SawTwiceAbove(i) => hist[i].fires = 1

\* C5 amended: a non-repeating 'crosses' rule fed [T+1, T+1] by the tick
\* handler as the first ticks of its symbol does not fire at all: the first
\* tick is handed over with previous = current, and the second is no crossing.
C5_NeverFires ==
    \A i \in DOMAIN alerts :
        /\ SawTwiceAbove(i) => (hist[i].fires = 0 /\ ~alerts[i].triggered)
        /\ (/\ SawEveryTick(i, "crosses")
            /\ tickCount[alerts[i].symbol] = 1
            /\ tickLog[alerts[i].symbol] = <<alerts[i].price + 1>>) =>
                (hist[i].fires = 0 /\ ~alerts[i].triggered)

\* C5 witness: the rule has been checked on both ticks of [T+1, T+1].
C5_Witness ==
    /\ Checked
    /\ \E i \in DOMAIN alerts :
        /\ SawTwiceAbove(i)
        /\ alerts[i].symbol = ret.symbol
        /\ ret.current = alerts[i].price + 1 /\ ret.previous = alerts[i].price + 1

(***************************************************************************)
(* Properties of the price store                                           *)
(***************************************************************************)
\* the latest quote of a symbol, and the one before it
LastQuote(symbol) == tickLog[symbol][Len(tickLog[symbol])]

QuoteBefore(symbol) ==
    IF tickCount[symbol] = 1
    THEN LastQuote(symbol)
    ELSE tickLog[symbol][Len(tickLog[symbol]) - 1]

\* C7: for every symbol that has received a tick, the stored current price
\* is the quote of its latest tick and getPrice returns that quote; the
\* stored previous price is the quote of the tick before (the same quote
\* after a first tick); ticks of the other symbol change none of this.
C7_PriceStore ==
    \A symbol \in Symbols :
        tickCount[symbol] >= 1 =>
            /\ symbol \in DOMAIN prices
            /\ prices[symbol].current = LastQuote(symbol)
            /\ prices[symbol].previous = QuoteBefore(symbol)
            /\ GetPrice(symbol) = LastQuote(symbol)

(***************************************************************************)
(* Properties of the client's subscriptions                                *)
(***************************************************************************)
\* C8: subscribe(symbol, callback) on a symbol with a recorded subscription
\* id sends no request (no request identifier is used, nothing is awaited,
\* the feed's subscriptions are as before), keeps every recorded id,
\* registers the new callback for the symbol, leaves the other symbols'
\* callbacks alone and resolves.
C8_ResubscribeReplacesCallback ==
    [][\A symbol \in DOMAIN subscriptions :
            (ret'.op = "subscribe" /\ ret'.symbol = symbol) =>
                /\ ret'.value = "resolved"
                /\ reqId' = reqId
                /\ pending' = pending
                /\ upstream' = upstream
                /\ subscriptions' = subscriptions
                /\ MapHas(callbacks', symbol)
                /\ MapGet(callbacks', symbol) = ret'.cb
                /\ \A other \in MapKeys(callbacks) \ {symbol} :
                        /\ MapHas(callbacks', other)
                        /\ MapGet(callbacks', other) = MapGet(callbacks, other)]_vars

\* C8 witness: a subscribe call on a symbol subscribed upstream has resolved
\* at once with the bot's handler, while the other symbol keeps main's.
C8_Witness ==
    /\ ret.op = "subscribe" /\ ret.value = "resolved" /\ ret.cb = "botTickHandler"
    /\ wsState = "open"
    /\ ret.symbol \in DOMAIN subscriptions
    /\ [symbol |-> ret.symbol, handle |-> subscriptions[ret.symbol]] \in upstream
    /\ MapGet(callbacks, ret.symbol) = "botTickHandler"
    /\ \E other \in MapKeys(callbacks) : MapGet(callbacks, other) = "handlePriceTick"
    /\ pending = {}

\* C9: the feed holds at most one subscription per symbol on the current
\* connection, under every interleaving of subscribe calls, responses and
\* the re-subscribe loop.
C9_OneUpstreamPerSymbol ==
    \A symbol \in Symbols : Cardinality({u \in upstream : u.symbol = symbol}) <= 1

\* C10: when the re-subscribe loop after a loss of the connection has run to
\* its end (every request accepted), and the program has called neither
\* subscribe nor unsubscribe since the loss: the symbols subscribed on the
\* new connection are exactly those registered at the loss, each with one
\* subscription whose id was issued on the new connection and is the one
\* recorded, and each with the callback it had at the loss.
C10_ReplayRestores ==
    (ret.op = "replayDone" /\ quiet) =>
        /\ wsState = "open"
        /\ MapKeys(callbacks) = DOMAIN atClose
        /\ \A s \in DOMAIN atClose : MapGet(callbacks, s) = atClose[s]
        /\ {u.symbol : u \in upstream} = DOMAIN atClose
        /\ Cardinality(upstream) = Cardinality(DOMAIN atClose)
        /\ DOMAIN subscriptions = DOMAIN atClose
        /\ \A s \in DOMAIN atClose :
                /\ subscriptions[s][1] = conn
                /\ [symbol |-> s, handle |-> subscriptions[s]] \in upstream

\* C10 witness: the loop has restored both symbols, registered with
\* different callbacks, on the second connection.
C10_Witness ==
    /\ ret.op = "replayDone" /\ quiet
    /\ conn = 2
    /\ DOMAIN atClose = Symbols
    /\ atClose["R_10"] # atClose["R_25"]
    /\ Cardinality(upstream) = 2

\* C11: when the feed rejects a request of the re-subscribe loop while
\* entries of the callbacks Map remain after it, the loop goes on to them
\* (it is still running after the rejection); stated for a loop the
\* program's own subscribe and unsubscribe calls do not interleave with.
C11_ReplayGoesOnAfterReject ==
    [][\A p \in pending :
            (/\ quiet
             /\ p.replay
             /\ p \notin pending'
             /\ upstream' = upstream
             /\ replay.idx < Len(callbacks)) => replay'.active]_vars

(***************************************************************************)
(* Properties of the connection's life                                     *)
(***************************************************************************)
\* the subscribe call with request id r is awaiting its response
Outstanding(r) == \E p \in pending : p.reqId = r

\* ... and the connection it was sent on has closed
Orphaned(r) ==
    \E p \in pending :
        /\ p.reqId = r
        /\ \/ p.conn < conn
           \/ p.conn = conn /\ wsState = "closed"

\* C13: a subscribe call outstanding when its connection closes (lost, or
\* closed by disconnect()) eventually completes, unless the process ends.
C13_OutstandingEventuallyFails ==
    \A r \in 1..MaxReqId : Orphaned(r) ~> (~Outstanding(r) \/ exited)

\* C16: after a loss of the connection or a failed reconnect attempt, the
\* client is eventually connected again or the process has ended.
C16_EventuallyConnectedOrFailed ==
    (wsState = "closed" /\ ~exited) ~> ((connected /\ wsState = "open") \/ exited)

\* C16 witness: the fourth connection is open: two connections were lost
\* and a reconnect attempt failed before this one succeeded.
C16_Witness ==
    /\ conn = 4
    /\ wsState = "open"
    /\ connected
    /\ connectBy = "timer"
    /\ reconnectAttempts = 0
    /\ ~exited

\* C12: once disconnect() has been called on a connected client, the
\* heartbeat stays stopped, the transport closes, and that close schedules no
\* reconnect: the attempt counter, the reconnect timer and the connection are
\* left as they are.
C12_DisconnectNoReconnect ==
    [][wsState = "closing" =>
            /\ ~pingInterval'
            /\ wsState' \in {"closing", "closed"}
            /\ reconnectAttempts' = reconnectAttempts
            /\ timer' = timer
            /\ conn' = conn]_vars

\* the step is a 'close' event of the current socket, handled by a live process
CloseStep == wsState # "closed" /\ wsState' = "closed" /\ ~exited'

\* C14: on each close, the reconnect is scheduled after
\* min(1000 * 2^attempt, 30000) ms, attempt being the counter before the
\* close (0 after a successful connection), and the counter goes up by one.
C14_DelayFromAttemptsMade ==
    [][CloseStep =>
            /\ timer' = Min(1000 * (2 ^ reconnectAttempts), 30000)
            /\ reconnectAttempts' = reconnectAttempts + 1]_vars

\* C15: a close that finds MaxReconnectAttempts attempts used ends the
\* process, with no timer scheduled and no connect made; a close of a
\* reconnect attempt that finds fewer schedules the next attempt; and once
\* the process has ended nothing is scheduled, connected, requested or
\* re-subscribed.
C15_LimitEndsReconnecting ==
    [][/\ (wsState # "closed" /\ wsState' = "closed" /\ ~exited
                /\ reconnectAttempts >= MaxReconnectAttempts) =>
            (exited' /\ timer' = 0 /\ conn' = conn
                /\ reconnectAttempts' = reconnectAttempts)
       /\ (wsState # "closed" /\ wsState' = "closed" /\ connectBy = "timer"
                /\ reconnectAttempts < MaxReconnectAttempts) =>
            (~exited' /\ timer' # 0)
       /\ exited =>
            (/\ exited'
             /\ UNCHANGED <<conn, wsState, timer, reconnectAttempts>>
             /\ UNCHANGED <<reqId, pending, upstream, subscriptions, replay>>)]_vars

\* C15 witness: the tenth reconnect attempt in a row has failed and the
\* process has ended at the limit.
C15_Witness ==
    /\ exited
    /\ ret.op = "error"
    /\ connectBy = "timer"
    /\ reconnectAttempts = MaxReconnectAttempts
    /\ wsState = "closed"
    /\ timer = 0

\* C17: a heartbeat message is sent only while the client is connected on an
\* open transport, with no reconnect scheduled or in flight.
C17_HeartbeatOnlyConnected ==
    (ret.op = "ping" /\ ret.sent) =>
        /\ connected
        /\ wsState = "open"
        /\ timer = 0

\* C17 witness: a heartbeat has been sent on a connection opened by a
\* reconnect.
C17_Witness ==
    /\ ret.op = "ping" /\ ret.sent
    /\ conn = 2
    /\ connectBy = "timer"
    /\ wsState = "open"

(***************************************************************************)
(* Properties of the rule set's mutations                                  *)
(***************************************************************************)
\* the last call was op, made with an id some rule had, and returned true
Called(op) == ret.op = op /\ ret.value = TRUE

\* C18: removeAlert(id) with an id in use leaves the rules other than the
\* one that had the id, in their order, numbered 1..N, with every field but
\* id as before.
C18_RemoveRenumbers ==
    Called("removeAlert") =>
        \E i \in DOMAIN pre :
            /\ pre[i].id = ret.id
            /\ Len(alerts) = Len(pre) - 1
            /\ \A k \in DOMAIN alerts :
                    alerts[k] = [(IF k < i THEN pre[k] ELSE pre[k + 1]) EXCEPT !.id = k]

\* C18 witness: the second of three rules has been removed, the rules left
\* differing in symbol, the last one triggered.
C18_Witness ==
    /\ Called("removeAlert")
    /\ ret.id = 2
    /\ Len(pre) = 3
    /\ Len(alerts) = 2
    /\ alerts[1].symbol # alerts[2].symbol
    /\ alerts[2].triggered
    /\ alerts[2].id = 2

\* C19: addAlert appends a rule with id = the largest id in use + 1 (1 when
\* there is no rule), enabled and not triggered, and leaves the other rules
\* as they are; and after any calls from an empty rule set the ids are
\* distinct positive integers.
C19_AddAssignsFreshId ==
    /\ \A i \in DOMAIN alerts :
            /\ alerts[i].id \in Nat \ {0}
            /\ \A j \in DOMAIN alerts : i # j => alerts[i].id # alerts[j].id
    /\ ret.op = "addAlert" =>
            LET ids == {pre[k].id : k \in DOMAIN pre}
                new == alerts[Len(alerts)]
            IN  /\ Len(alerts) = Len(pre) + 1
                /\ SubSeq(alerts, 1, Len(pre)) = pre
                /\ new = ret.value
                /\ new.enabled /\ ~new.triggered
                /\ IF ids = {} THEN new.id = 1
                   ELSE /\ new.id - 1 \in ids
                        /\ \A x \in ids : x < new.id

\* C19 witness: a third rule has been added to two, one of them triggered.
C19_Witness ==
    /\ ret.op = "addAlert"
    /\ Len(alerts) = 3
    /\ ret.value.id = 3
    /\ alerts[1].triggered
    /\ ~alerts[2].enabled

\* the position of the first rule that had the id passed to the last call
TargetIndex == CHOOSE i \in DOMAIN pre : pre[i].id = ret.id /\ \A j \in 1..(i - 1) : pre[j].id # ret.id

\* C20: disableAlert(id) sets enabled = false on the rule and changes nothing
\* else; enableAlert(id) sets enabled = true and triggered = false on the
\* rule and changes nothing else; the other rules, their number and their
\* order are as before.
C20_EnableDisableFrame ==
    /\ Called("disableAlert") =>
            /\ \E i \in DOMAIN pre : pre[i].id = ret.id
            /\ alerts = [pre EXCEPT ![TargetIndex].enabled = FALSE]
    /\ Called("enableAlert") =>
            /\ \E i \in DOMAIN pre : pre[i].id = ret.id
            /\ alerts = [pre EXCEPT ![TargetIndex].enabled = TRUE, ![TargetIndex].triggered = FALSE]

\* C20 witness: a triggered, enabled rule among three has been disabled and
\* is still triggered.
C20_Witness ==
    /\ Called("disableAlert")
    /\ Len(alerts) = 3
    /\ pre[TargetIndex].enabled /\ pre[TargetIndex].triggered
    /\ ~alerts[TargetIndex].enabled /\ alerts[TargetIndex].triggered

\* the rules of pre that are triggered and do not repeat
Cleared == {i \in DOMAIN pre : pre[i].triggered /\ ~pre[i].repeat}

\* the position in pre of the k-th rule that is not in Cleared
KeptAt(k) ==
    CHOOSE i \in DOMAIN pre \ Cleared :
        Cardinality({j \in 1..i : j \notin Cleared}) = k

\* C21: clearTriggered removes the rules that are triggered and do not
\* repeat and no other, keeps the rest in their order numbered 1..N with
\* every other field as before, and returns the number removed.
C21_ClearTriggeredRemovesExactly ==
    ret.op = "clearTriggered" =>
        /\ ret.value = Cardinality(Cleared)
        /\ Len(alerts) = Len(pre) - Cardinality(Cleared)
        /\ \A k \in DOMAIN alerts : alerts[k] = [pre[KeptAt(k)] EXCEPT !.id = k]

\* C21 witness: of three rules the first, triggered and not repeating, has
\* been cleared; a triggered repeating rule and an untriggered rule are kept.
C21_Witness ==
    /\ ret.op = "clearTriggered"
    /\ ret.value = 1
    /\ Len(pre) = 3
    /\ 1 \in Cleared
    /\ \E i \in {2, 3} : pre[i].triggered /\ pre[i].repeat
    /\ \E i \in {2, 3} : ~pre[i].triggered
    /\ Len(alerts) = 2

\* C22: a checkAlerts call leaves the number and order of the rules and
\* every field but triggered as they are, sets triggered on the rules it
\* returns and on no other, and returns no rule that was disabled, of
\* another symbol, or triggered and not repeating; and a triggered
\* non-repeating rule stays triggered through every call other than an
\* enableAlert or resetAlert of that rule.
C22_CheckAlertsKeepsRuleSet ==
    [][/\ ret'.op = "checkAlerts" =>
            /\ Len(alerts') = Len(alerts)
            /\ \A i \in DOMAIN alerts :
                    LET fired == \E k \in DOMAIN ret'.fired : ret'.fired[k] = i
                    IN  /\ alerts'[i] = IF fired THEN [alerts[i] EXCEPT !.triggered = TRUE]
                                        ELSE alerts[i]
                        /\ fired =>
                            /\ alerts[i].enabled
                            /\ alerts[i].symbol = ret'.symbol
                            /\ ~(alerts[i].triggered /\ ~alerts[i].repeat)
       /\ \A i \in DOMAIN alerts :
            (/\ alerts[i].triggered /\ ~alerts[i].repeat
             /\ ~(ret'.op \in {"enableAlert", "resetAlert"} /\ ret'.id = alerts[i].id)) =>
                (i \in DOMAIN alerts' /\ alerts'[i].triggered)]_vars

\* C22 witness: a call has fired one rule and passed over a disabled rule of
\* the same symbol whose condition the prices met.
C22_Witness ==
    /\ ret.op = "checkAlerts"
    /\ Len(ret.fired) = 1
    /\ Len(alerts) = 2
    /\ \E j \in DOMAIN pre :
        /\ j # ret.fired[1]
        /\ pre[j].symbol = ret.symbol
        /\ ~pre[j].enabled
        /\ ConditionMet(pre[j], ret.current, ret.previous)
        /\ alerts[j] = pre[j]

(***************************************************************************)
(* SpecStore: one rule, both storage backends, failing writes, and the     *)
(* process started again (constructor and init)                            *)
(***************************************************************************)
\* the rules the store scenario keeps
MaxStoreRules == 1

\* LoadAlertsFromFile keeping the rule set in memory when the read fails
LoadAlertsFromFileKeeps(fileOk) == IF fileOk THEN stored ELSE alerts

\* loadAlertsFromFile: config.alerts || [], and [] when the read or the
\* parse throws (ensureConfigFile has created an empty file when none was)
LoadAlertsFromFile(fileOk) == IF fileOk THEN stored ELSE <<>>

\* loadAlertsFromRedis: the parsed value of the key, [] when the key has no
\* value or redis.get throws
LoadAlertsFromRedis(getOk) == IF getOk THEN kv ELSE <<>>

\* a new process: the constructor, then init().  The redis.set calls of the
\* process before it that had not completed are lost with it.
AlertManagerInit(hasRedis, pingOk, getOk, fileOk) ==
    /\ useRedis' = (hasRedis /\ pingOk)
    /\ alerts' = IF hasRedis /\ pingOk
                 THEN LoadAlertsFromRedis(getOk)
                 ELSE LoadAlertsFromFile(fileOk)
    /\ inflight' = <<>>
    /\ writes' = [writes EXCEPT !.started = FALSE, !.last = <<>>]
    /\ hist' = [i \in DOMAIN alerts' |-> [fires |-> 0, sawAll |-> FALSE]]
    /\ pre' = alerts
    /\ ret' = [op |-> "init", redis |-> hasRedis, ping |-> pingOk,
               get |-> getOk, file |-> fileOk, sameBackend |-> useRedis' = useRedis]
    /\ UNCHANGED <<stored, kv>>
    /\ UNCHANGED clientVars

\* a redis.set call settles: the key takes the snapshot serialized at the
\* call, or the call rejects and saveAlertsToRedis logs it.  AlertManager
\* does not order the calls it has started; which settles next is the
\* client's business.
SetSettles(k) ==
    /\ k \in DOMAIN inflight
    /\ kv' = IF inflight[k].ok THEN inflight[k].data ELSE kv
    /\ inflight' = RemoveAt(inflight, k)
    /\ UNCHANGED <<alerts, stored, useRedis, writes, pre, hist, ret>>
    /\ UNCHANGED clientVars

InitStore == InitRules

StoreInit ==
    \E hasRedis \in BOOLEAN, pingOk \in BOOLEAN, getOk \in BOOLEAN, fileOk \in BOOLEAN :
        AlertManagerInit(hasRedis, pingOk, getOk, fileOk)

StoreSettle == \E k \in 1..MaxInflight : SetSettles(k)

StoreAdd ==
    /\ Len(alerts) < MaxStoreRules
    /\ \E ok \in BOOLEAN : AddAlert("R_10", "R_10", "above", TargetPrice, FALSE, ok)

StoreRemove == \E id \in 1..(MaxStoreRules + 1), ok \in BOOLEAN : RemoveAlert(id, ok)

StoreRemoveAll == \E ok \in BOOLEAN : RemoveAllAlerts(ok)

StoreClearTriggered == \E ok \in BOOLEAN : ClearTriggered(ok)

StoreEnable == \E id \in 1..(MaxStoreRules + 1), ok \in BOOLEAN : EnableAlert(id, ok)

StoreDisable == \E id \in 1..(MaxStoreRules + 1), ok \in BOOLEAN : DisableAlert(id, ok)

StoreReset == \E id \in 1..(MaxStoreRules + 1), ok \in BOOLEAN : ResetAlert(id, ok)

\* a tick above the target reaches checkAlerts
StoreCheck ==
    \E ok \in BOOLEAN :
        /\ CheckAlerts("direct", "R_10", MaxPrice, MaxPrice, ok)
        /\ UNCHANGED clientVars

NextStore ==
    \/ StoreInit
    \/ StoreSettle
    \/ StoreAdd
    \/ StoreRemove
    \/ StoreRemoveAll
    \/ StoreClearTriggered
    \/ StoreEnable
    \/ StoreDisable
    \/ StoreReset
    \/ StoreCheck

SpecStore == InitStore /\ [][NextStore]_vars

\* the load of the last init() read its backend without an error
LoadedOk == IF ret.redis /\ ret.ping THEN ret.get ELSE ret.file

\* C23: a non-repeating rule that has fired is persisted as triggered before
\* anything else happens: when the process is started again on the backend
\* it was using, no write has failed and the load succeeds, every
\* non-repeating rule that was triggered in memory and is loaded again is
\* loaded as triggered (so it does not fire a second time).
C23_RestartKeepsTriggered ==
    (ret.op = "init" /\ ret.sameBackend /\ LoadedOk /\ ~writes.failed)
        => \A i \in DOMAIN pre :
                (pre[i].triggered /\ ~pre[i].repeat /\ i \in DOMAIN alerts)
                    => alerts[i].triggered

\* C24: the saves are serialized: on the key-value backend, once every
\* redis.set started has completed and none has failed, the key holds the
\* rule set as it was at the last save started (no earlier snapshot has
\* replaced a later one).
C24_LastSaveWins ==
    (useRedis /\ writes.started /\ ~writes.failed /\ inflight = <<>>)
        => kv = writes.last

\* the operations that change the rule set
MutationOps ==
    {"addAlert", "removeAlert", "enableAlert", "disableAlert", "resetAlert",
     "removeAllAlerts", "clearTriggered"}

\* C25: with a working file backend, when a mutation that has changed the
\* rule set returns, the file holds the rule set that is in memory.
C25_MutationPersisted ==
    (ret.op \in MutationOps /\ alerts # pre) => stored = alerts

\* C25 witness: resetAlert has cleared the flag of a triggered rule, which
\* checkAlerts had not saved, and the file has the rule set of memory
C25_Witness ==
    /\ Called("resetAlert")
    /\ alerts # pre
    /\ \E i \in DOMAIN pre : pre[i].triggered /\ pre[i].repeat /\ pre[i].id = ret.id
    /\ stored = alerts

\* the positions of the rule set before the call whose rule has the id passed
WithId == {i \in DOMAIN pre : pre[i].id = ret.id}

\* the positions of the rules clearTriggered removes
Removable == {i \in DOMAIN pre : pre[i].triggered /\ ~pre[i].repeat}

\* the value returned and the rule set in memory are those of the operation
\* applied to the rule set before the call
NormalOutcome ==
    CASE ret.op = "addAlert" ->
            /\ alerts = Append(pre, ret.value)
            /\ ret.value.enabled /\ ~ret.value.triggered
      [] ret.op = "removeAllAlerts" ->
            alerts = <<>> /\ ret.value = Len(pre)
      [] ret.op \in {"enableAlert", "disableAlert", "resetAlert", "removeAlert"}
            /\ ~ret.value ->
            alerts = pre /\ WithId = {}
      [] ret.op = "enableAlert" /\ ret.value ->
            \E i \in WithId :
                alerts = [pre EXCEPT ![i].enabled = TRUE, ![i].triggered = FALSE]
      [] ret.op = "disableAlert" /\ ret.value ->
            \E i \in WithId : alerts = [pre EXCEPT ![i].enabled = FALSE]
      [] ret.op = "resetAlert" /\ ret.value ->
            \E i \in WithId : alerts = [pre EXCEPT ![i].triggered = FALSE]
      [] ret.op = "removeAlert" /\ ret.value ->
            /\ WithId # {}
            /\ Len(alerts) = Len(pre) - 1
            /\ \A k \in DOMAIN alerts : alerts[k].id = k
      [] ret.op = "clearTriggered" ->
            /\ ret.value = Cardinality(Removable)
            /\ Len(alerts) = Len(pre) - ret.value
            /\ \A k \in DOMAIN alerts : ~alerts[k].triggered \/ alerts[k].repeat
      [] ret.op = "checkAlerts" ->
            /\ Len(alerts) = Len(pre)
            /\ \A i \in DOMAIN pre :
                    alerts[i].triggered
                        = (pre[i].triggered \/ \E k \in DOMAIN ret.fired : ret.fired[k] = i)
      [] OTHER -> TRUE

\* C26: a failed write is not propagated: once a write has failed, the
\* operation that started it and every later operation return their normal
\* value and leave in memory the rule set they compute from the one before.
C26_FailedWriteNotPropagated == writes.failed => NormalOutcome

\* C26 witness: on the file backend a rule was added and has fired while
\* every write failed: the file is empty and memory has the triggered rule
C26_Witness ==
    /\ writes.failed
    /\ ~useRedis
    /\ ret.op = "checkAlerts"
    /\ ret.fired = <<1>>
    /\ stored = <<>>
    /\ Len(alerts) = 1
    /\ alerts[1].triggered

\* C27: init() with a load that fails leaves an empty rule set: the
\* key-value backend answers ping and its read fails, or the file is read
\* (no key-value client, or ping fails) and the read fails; with the
\* key-value backend unreachable and the file readable, the rule set is the
\* file's and the file backend is in use.
C27_InitFallsBack ==
    ret.op = "init" =>
        /\ (ret.redis /\ ret.ping /\ ~ret.get) => alerts = <<>>
        /\ (~(ret.redis /\ ret.ping) /\ ~ret.file) => alerts = <<>>
        /\ (ret.redis /\ ~ret.ping /\ ret.file) => (alerts = stored /\ ~useRedis)

\* C27 witness: init() found the key-value backend unreachable and loaded
\* the rule of the file, which the key does not hold
C27_Witness ==
    /\ ret.op = "init"
    /\ ret.redis /\ ~ret.ping /\ ret.file
    /\ alerts = stored
    /\ alerts # <<>>
    /\ kv # stored

\* the records of every symbol but one are the same in the next state
OthersKept(symbol) ==
    /\ \A s \in Symbols \ {symbol} :
            /\ (s \in DOMAIN subscriptions') = (s \in DOMAIN subscriptions)
            /\ s \in DOMAIN subscriptions => subscriptions'[s] = subscriptions[s]
            /\ MapHas(callbacks', s) = MapHas(callbacks, s)
            /\ MapHas(callbacks, s) => MapGet(callbacks', s) = MapGet(callbacks, s)

\* C28: when the feed answers an outstanding subscribe with an error, the
\* call rejects and the handles, the callbacks, the connection and the
\* price store are as before; when it answers with a subscription, the call
\* resolves, the symbol has the handle of the answer and the callback of the
\* call, and the other symbols' records, the connection and the price store
\* are as before.
C28_ResponseRecords ==
    [][(ret'.op = "response" /\ pending' # pending)
        => \E p \in pending \ pending' :
            /\ ret'.value = "rejected" =>
                    /\ subscriptions' = subscriptions
                    /\ callbacks' = callbacks
            /\ ret'.value = "resolved" =>
                    /\ p.symbol \in DOMAIN subscriptions'
                    /\ subscriptions'[p.symbol] = HandleOf(conn, p.reqId)
                    /\ MapHas(callbacks', p.symbol)
                    /\ MapGet(callbacks', p.symbol) = p.cb
                    /\ OthersKept(p.symbol)
            /\ UNCHANGED <<connVars, prices>>]_vars

\* C28 witness: a subscribe has been rejected by the feed while the other
\* symbol is subscribed, and its symbol has neither handle nor callback
C28_Witness ==
    /\ ret.op = "response"
    /\ ret.value = "rejected"
    /\ connected
    /\ \E s \in Symbols, t \in Symbols :
            /\ s \in DOMAIN subscriptions
            /\ t \notin DOMAIN subscriptions
            /\ ~MapHas(callbacks, t)

\* C29: unsubscribe on a symbol that has a handle removes the handle and the
\* callback of the symbol before it returns, whatever becomes of the forget
\* it sends; stated for a call made while the socket of a reconnect is still
\* being opened.
C29_UnsubscribeRemoves ==
    (ret.op = "unsubscribe" /\ ret.value # "none" /\ wsState = "connecting")
        => (ret.symbol \notin DOMAIN subscriptions /\ ~MapHas(callbacks, ret.symbol))

(***************************************************************************)
(* SpecRequests: the client with every request it issues: subscribe, the   *)
(* re-subscribe loop and fetchActiveSymbols                                *)
(***************************************************************************)
UserFetch == FetchActiveSymbols

\* the feed lists no symbol of an allowed market
FetchResponse == \E p \in pending, accepted \in BOOLEAN : FetchRespond(p, accepted, <<>>)

NextRequests ==
    \/ MainConnect
    \/ Open
    \/ ConnError
    \/ Close
    \/ TimerFire
    \/ UserSubscribe
    \/ UserUnsubscribe
    \/ UserFetch
    \/ Response
    \/ FetchResponse
    \/ ReplayNext

SpecRequests == InitClient /\ [][NextRequests]_vars

\* C30: request ids only grow and a request issued gets an id above every
\* id issued before, so the outstanding requests have distinct ids; a
\* response settles exactly one outstanding request, the one of this
\* connection whose id it echoes, and a subscription recorded carries that
\* id; every other outstanding request stays outstanding.
C30_ResponseMatchesRequest ==
    [][/\ reqId' >= reqId
       /\ \A q \in pending' \ pending :
            /\ q.reqId = reqId'
            /\ reqId' > reqId
            /\ \A p \in pending : p.reqId < q.reqId
       /\ \A p \in pending', q \in pending' : p.reqId = q.reqId => p = q
       /\ (ret'.op \in {"response", "symbols"} /\ pending' # pending) =>
            /\ pending' \subseteq pending
            /\ Cardinality(pending \ pending') = 1
            /\ \A p \in pending \ pending' :
                    /\ p.conn = conn
                    /\ (ret'.op = "response" /\ ret'.value = "resolved")
                            => subscriptions'[p.symbol] = HandleOf(conn, p.reqId)]_vars

\* C30 witness: a subscribe has been answered while a fetchActiveSymbols
\* request and another subscribe of the same connection are outstanding
C30_Witness ==
    /\ ret.op = "response"
    /\ wsState = "open"
    /\ \E p \in pending, q \in pending :
            /\ p.conn = conn /\ p.symbol = ActiveSymbols
            /\ q.conn = conn /\ q.symbol \in Symbols
            /\ q.reqId < p.reqId

(***************************************************************************)
(* SpecRoute: the messages of an open connection routed by _handleMessage, *)
(* while the program subscribes and unsubscribes                           *)
(***************************************************************************)
\* the quotes of the routed ticks: two, so that the price before differs
MaxRoutePrice == 2

RouteQuotes == 1..MaxRoutePrice

\* a tick of any symbol arrives on the open socket (ticks sent before a
\* forget took effect included)
RouteTick ==
    /\ ~exited
    /\ wsState = "open"
    /\ \E symbol \in Symbols, price \in RouteQuotes : HandleTick(symbol, price, TRUE)

RouteOther == \E kind \in OtherKinds : HandleOther(kind)

\* the requests the routed scenario issues
MaxRouteReqs == 2

RouteSubscribe ==
    /\ reqId < MaxRouteReqs
    /\ UserSubscribe

NextRoute ==
    \/ MainConnect
    \/ Open
    \/ RouteSubscribe
    \/ UserUnsubscribe
    \/ Response
    \/ RouteTick
    \/ RouteOther

SpecRoute == InitClient /\ [][NextRoute]_vars

CaseVariants(str) ==
    {[i \in DOMAIN str |-> IF i \in U THEN ToUpperChar(str[i]) ELSE str[i]] :
        U \in SUBSET DOMAIN str}

\* the inputs of resolveSymbol: spellings of two aliases, of two symbols the
\* feed lists and of a word that is neither, and the empty string
Inputs ==
    CaseVariants(<<"v", "1", "0">>) \cup CaseVariants(<<"b", "t", "c">>)
        \cup CaseVariants(<<"r", "_", "1", "0">>)
        \cup CaseVariants(<<"s", "t", "p", "r", "n", "g">>)
        \cup CaseVariants(<<"f", "o", "o">>)
        \cup {<<>>}

\* the symbols getAlias is asked about: every symbol of the table and the
\* symbols of the feed's answer
AliasSymbols ==
    {SYMBOL_ALIASES[i][2] : i \in DOMAIN SYMBOL_ALIASES}
        \cup {FeedAnswer[i].symbol : i \in DOMAIN FeedAnswer}

\* the answers of the feed to active_symbols
SymbolAnswers == {<<>>, FeedAnswer}

SymbolsResponse ==
    \E p \in pending, accepted \in BOOLEAN, answer \in SymbolAnswers :
        FetchRespond(p, accepted, answer)

Resolve == \E input \in Inputs : ResolveCall(input)

Alias == \E derivSymbol \in AliasSymbols : AliasCall(derivSymbol)

NextSymbols ==
    \/ MainConnect
    \/ Open
    \/ UserFetch
    \/ SymbolsResponse
    \/ Resolve
    \/ Alias

SpecSymbols == InitClient /\ [][NextSymbols]_vars

\* the symbol the alias table has for an uppercased input, if any
AliasHits(U) == {i \in DOMAIN SYMBOL_ALIASES : SYMBOL_ALIASES[i][1] = U}

\* the loaded symbols equal to an uppercased input when uppercased
SymbolMatches(U) == {i \in DOMAIN activeSymbols : ToUpperCase(activeSymbols[i]) = U}

\* C32: resolveSymbol(input), with U the uppercased input, returns the
\* table's symbol for U when U is an alias, else a loaded symbol whose
\* uppercase is U when there is one, else U.
C32_ResolveMatchesReference ==
    ret.op = "resolveSymbol" =>
        LET U == ToUpperCase(ret.input)
        IN  IF AliasHits(U) # {}
            THEN \E i \in AliasHits(U) : ret.value = SYMBOL_ALIASES[i][2]
            ELSE IF SymbolMatches(U) # {}
            THEN \E i \in SymbolMatches(U) : ret.value = activeSymbols[i]
            ELSE ret.value = U

\* the entries of the alias table that map to the symbol getAlias was given
MapsTo == {i \in DOMAIN SYMBOL_ALIASES : SYMBOL_ALIASES[i][2] = ret.symbol}

\* C33: getAlias(symbol) returns none exactly when no alias of at most 4
\* characters maps to the symbol; otherwise it returns an alias that maps to
\* the symbol, has at most 4 characters, and is no longer than any other
\* alias of the symbol.
C33_AliasShortest ==
    ret.op = "getAlias" =>
        LET short == {i \in MapsTo : Len(SYMBOL_ALIASES[i][1]) <= 4}
        IN  /\ ret.value.found = (short # {})
            /\ ret.value.found =>
                    \E i \in short :
                        /\ ret.value.alias = SYMBOL_ALIASES[i][1]
                        /\ \A j \in MapsTo :
                                Len(SYMBOL_ALIASES[i][1]) <= Len(SYMBOL_ALIASES[j][1])

\* C33 witness: getAlias has returned a three-letter alias for a symbol that
\* also has aliases of more than 4 characters
C33_Witness ==
    /\ ret.op = "getAlias"
    /\ ret.value.found
    /\ Len(ret.value.alias) = 3
    /\ \E j \in MapsTo : Len(SYMBOL_ALIASES[j][1]) > 4

(***************************************************************************)
(* SpecRearm: the alert engine fed by the tick handler, with a rule        *)
(* re-armed between ticks                                                  *)
(***************************************************************************)
RearmReset == \E id \in 1..MaxLiveAlerts : ResetAlert(id, TRUE)

RearmEnable == \E id \in 1..MaxLiveAlerts : EnableAlert(id, TRUE)

NextRearm ==
    \/ Tick
    \/ Add
    \/ RearmReset
    \/ RearmEnable

SpecRearm == InitEval /\ [][NextRearm]_vars

\* rule i is in the list returned by the checkAlerts call of this step
FiresNext(i) == \E k \in DOMAIN ret'.fired : ret'.fired[k] = i

\* the last operation was resetAlert or enableAlert on rule i, which was
\* triggered, and the rule is non-repeating and enabled
Rearmed(i) ==
    /\ ret.op \in {"resetAlert", "enableAlert"}
    /\ ret.value = TRUE
    /\ ret.id = alerts[i].id
    /\ i \in DOMAIN pre
    /\ pre[i].triggered
    /\ ~alerts[i].repeat
    /\ alerts[i].enabled

\* C34: a fired non-repeating rule re-armed by resetAlert or enableAlert is
\* returned by the next checkAlerts call for its symbol when it is an
\* 'above' ('below') rule and both prices of the call are at or beyond the
\* target, although nothing crossed; a 'crosses' rule re-armed so is
\* returned only when the two prices cross the target.
C34_RearmedFiresWithoutCrossing ==
    [][\A i \in DOMAIN alerts :
        (Rearmed(i) /\ ret'.op = "checkAlerts" /\ ret'.symbol = alerts[i].symbol) =>
            LET T == alerts[i].price
                cur == ret'.current
                prev == ret'.previous
            IN  /\ (alerts[i].condition = "above" /\ cur >= T /\ prev >= T)
                        => FiresNext(i)
                /\ (alerts[i].condition = "below" /\ cur <= T /\ prev <= T)
                        => FiresNext(i)
                /\ alerts[i].condition = "crosses"
                        => (FiresNext(i) <=> ((cur >= T /\ prev < T) \/ (cur <= T /\ prev > T)))]_vars

\* C34 witness: a non-repeating 'above' rule that has seen every tick of
\* its symbol was not triggered at a tick that follows a tick above the
\* target (so it had fired and was re-armed), and the tick, again above the
\* target, has fired it
C34_Witness ==
    /\ Checked
    /\ \E i \in DOMAIN alerts :
            /\ InFired(i)
            /\ alerts[i].condition = "above"
            /\ ~alerts[i].repeat
            /\ ~pre[i].triggered
            /\ hist[i].sawAll
            /\ ret.symbol = alerts[i].symbol
            /\ tickCount[ret.symbol] >= 2
            /\ tickLog[ret.symbol] = <<MaxPrice, MaxPrice>>

\* C35: the attempt counter stays within 0..MaxReconnectAttempts and is 0
\* in every state an 'open' leads to; the first reconnect scheduled after a
\* connection that was open is attempt 1 with the first delay.
C35_AttemptsBounded ==
    [][/\ reconnectAttempts \in 0..MaxReconnectAttempts
       /\ reconnectAttempts' \in 0..MaxReconnectAttempts
       /\ ret'.op = "open" => reconnectAttempts' = 0
       /\ (wsState \in {"open", "closing"} /\ timer' # timer /\ timer' # 0) =>
            (reconnectAttempts' = 1 /\ timer' = Delay(1))]_vars

\* C35 witness: a reconnect made by the timer opened, the connection was
\* lost again, and the reconnect scheduled is attempt 1
C35_Witness ==
    /\ wsState = "closed"
    /\ connectBy = "timer"
    /\ ~exited
    /\ reconnectAttempts = 1
    /\ timer = Delay(1)

\* C36: once unsubscribe(symbol) has returned, the client does not
\* subscribe the symbol again on its own: the answer to a subscribe of the
\* re-subscribe loop for that symbol, arriving next, records no handle for
\* it.
C36_UnsubscribedStaysOut ==
    [][(ret.op = "unsubscribe" /\ ret.value # "threw") =>
            \A p \in pending \ pending' :
                (p.replay /\ p.symbol = ret.symbol)
                    => ret.symbol \notin DOMAIN subscriptions']_vars

\* C37: while the client is connected and the re-subscribe loop is not
\* running, every subscription id recorded was issued on the current
\* connection.
C37_NoStaleHandle ==
    (connected /\ wsState = "open" /\ ~replay.active)
        => \A s \in DOMAIN subscriptions : subscriptions[s][1] = conn

\* C38: after a checkAlerts call the rule set has the number and order of
\* rules it had before; the returned list holds exactly the rules whose
\* condition the call found met, in rule-set order and each once; a returned
\* rule differs from what it was in triggered only, which is true; a rule not
\* returned, and every rule of another symbol, is what it was; id, symbol,
\* name, condition, price, enabled and repeat of every rule are what they were.
C38_CheckAlertsFrame ==
    Checked =>
        /\ DOMAIN alerts = DOMAIN pre
        /\ \A k \in DOMAIN ret.fired : ret.fired[k] \in DOMAIN pre
        /\ \A k1, k2 \in DOMAIN ret.fired : k1 < k2 => ret.fired[k1] < ret.fired[k2]
        /\ \A i \in DOMAIN pre :
            /\ InFired(i) <=> Fires(pre[i], ret.symbol, ret.current, ret.previous)
            /\ InFired(i) => alerts[i] = [pre[i] EXCEPT !.triggered = TRUE]
            /\ ~InFired(i) => alerts[i] = pre[i]
            /\ pre[i].symbol # ret.symbol => alerts[i] = pre[i]
            /\ alerts[i].id = pre[i].id
            /\ alerts[i].symbol = pre[i].symbol
            /\ alerts[i].name = pre[i].name
            /\ alerts[i].condition = pre[i].condition
            /\ alerts[i].price = pre[i].price
            /\ alerts[i].enabled = pre[i].enabled
            /\ alerts[i].repeat = pre[i].repeat

\* C38 witness: one call has returned both rules of the set, the first a
\* repeating rule that was triggered already and stays so, the second a rule
\* that was not triggered and now is.
C38_Witness ==
    /\ Checked
    /\ ret.fired = <<1, 2>>
    /\ pre[1].triggered /\ alerts[1].triggered
    /\ ~pre[2].triggered /\ alerts[2].triggered

\* rule i is a repeating 'cond' rule that has been evaluated on every tick
\* of its symbol, of which there were two
RepeatingSawTwo(i, cond) ==
    /\ alerts[i].condition = cond /\ alerts[i].repeat /\ alerts[i].enabled
    /\ hist[i].sawAll
    /\ tickCount[alerts[i].symbol] = 2
    /\ Len(tickLog[alerts[i].symbol]) = 2

\* C39: a repeating 'above' ('below') rule that is triggered is returned by
\* a checkAlerts call only when previous < target <= current (previous >
\* target >= current); and fed by the tick handler from its symbol's first
\* tick, two consecutive ticks at or beyond the target fire it once.
C39_RepeatingNeedsCrossing ==
    /\ Checked =>
        \A i \in DOMAIN pre :
            (pre[i].repeat /\ pre[i].triggered /\ InFired(i)) =>
                /\ pre[i].condition = "above" =>
                        (ret.previous < pre[i].price /\ pre[i].price <= ret.current)
                /\ pre[i].condition = "below" =>
                        (ret.previous > pre[i].price /\ pre[i].price >= ret.current)
    /\ \A i \in DOMAIN alerts :
        LET log == tickLog[alerts[i].symbol]
            T == alerts[i].price
        IN  /\ (RepeatingSawTwo(i, "above") /\ log[1] >= T /\ log[2] >= T)
                    => hist[i].fires = 1
            /\ (RepeatingSawTwo(i, "below") /\ log[1] <= T /\ log[2] <= T)
                    => hist[i].fires = 1

\* C39 witness: a repeating 'above' rule fired on its symbol's first tick,
\* above the target, and the second tick, at the target, was evaluated with
\* the rule triggered and did not fire it.
C39_Witness ==
    /\ Checked
    /\ \E i \in DOMAIN alerts :
        /\ RepeatingSawTwo(i, "above")
        /\ ret.symbol = alerts[i].symbol
        /\ tickLog[ret.symbol] = <<alerts[i].price + 1, alerts[i].price>>
        /\ pre[i].triggered
        /\ ~InFired(i)
        /\ hist[i].fires = 1

\* the calls that take an id
IdOps == {"removeAlert", "enableAlert", "disableAlert", "resetAlert"}

\* the step is the completion of a redis.set started earlier, not a call
SettleStep == ret' = ret /\ Len(inflight') < Len(inflight)

\* no rule is triggered and non-repeating
NothingToClear == \A i \in DOMAIN alerts : ~alerts[i].triggered \/ alerts[i].repeat

\* the rule set, the file, the key and the writes under way are what they were
NothingWritten ==
    /\ alerts' = alerts
    /\ stored' = stored
    /\ kv' = kv
    /\ inflight' = inflight
    /\ writes' = writes
    /\ useRedis' = useRedis

\* C40: removeAlert, enableAlert, disableAlert and resetAlert with an id no
\* rule has return false, and clearTriggered with no triggered non-repeating
\* rule returns 0; either way the rule set is what it was, the file and the
\* key are untouched and no write is started.
C40_NoOpOnMissing ==
    [][~SettleStep =>
        /\ (ret'.op \in IdOps /\ FindIndex(alerts, ret'.id) = 0) =>
                (ret'.value = FALSE /\ NothingWritten)
        /\ (ret'.op = "clearTriggered" /\ NothingToClear) =>
                (ret'.value = 0 /\ NothingWritten)]_vars

\* C40 witness: with the key-value backend in use, a rule in the set and no
\* write under way, a call named an id no rule has and returned false.
C40_Witness ==
    /\ ret.op \in IdOps
    /\ ret.value = FALSE
    /\ FindIndex(alerts, ret.id) = 0
    /\ alerts # <<>>
    /\ pre = alerts
    /\ useRedis
    /\ inflight = <<>>

====
